---- MODULE Spec2Model ----
(***************************************************************************)
(* Model of the WEG Star Wars dice engine (src/dice.py).                   *)
(*                                                                         *)
(* Python strings are sequences of one-character strings, so that the     *)
(* clean-up of a dice code (strip, upper, replace), the regular            *)
(* expressions, split, int() and str() are computed character by           *)
(* character.  None is the empty sequence <<>> of an optional value, and a *)
(* present value v is <<v>>.  A dict is a record with a field "keys"       *)
(* holding the keys the dict really has.                                   *)
(***************************************************************************)
EXTENDS Integers, Sequences, FiniteSets, TLC

VARIABLES
    use_wild_die,   \* WEGDiceRoller.use_wild_die
    dice_code,      \* roll(dice_code, ...)
    modifier,       \* roll(..., modifier, ...)
    difficulty,     \* roll(..., difficulty): <<>> is None, <<s>> the string s
    dark_side_temptation, \* roll_force_power(..., dark_side_temptation)
    pc,             \* position of the running roll
    num_dice,       \* local of roll
    total_bonus,    \* local of roll
    dice_results,   \* local of roll
    wild_faces,     \* the faces self.random gave to _roll_wild_die, in order
    wd_total,       \* local "total" of _roll_wild_die
    wd_exploded,    \* local "exploded" of _roll_wild_die
    wd_complications, \* local "complications" of _roll_wild_die
    draws,          \* number of self.random.randint calls of the running roll
    result,         \* what roll returned
    op,             \* the public operation in progress
    code2,          \* roll_opposed(.., dice_code2, ..)
    modifier2,      \* roll_opposed(.., modifier2)
    roll1,          \* local roll1 of roll_opposed
    out,            \* what roll_opposed returned
    chk_total,      \* _check_difficulty(total, ...)
    chk_out,        \* what _check_difficulty returned
    p_fn,           \* the WEGStarWarsParser method in progress
    p_arg,          \* its arguments
    p_ret,          \* what it returned or raised; <<>> while it has not
    db_users,       \* the rows of User, by discord_id
    db_sheets,      \* the rows of CharacterSheet, by id
    db_shares,      \* the rows of SharedSheet
    gm_members,     \* the members that have a GM role
    waiting,        \* the updatesheet handlers at bot.wait_for
    sent,           \* the last ctx.send of a handler
    parsed_sheets   \* what the parser gives for each sheet a member may send

vars == <<use_wild_die, dice_code, modifier, difficulty, dark_side_temptation, pc, num_dice,
          total_bonus, dice_results, wild_faces, wd_total, wd_exploded,
          wd_complications, draws, result, op, code2, modifier2, roll1, out,
          chk_total, chk_out, p_fn, p_arg, p_ret,
          db_users, db_sheets, db_shares, gm_members, waiting, sent, parsed_sheets>>

(***************************************************************************)
(* Bounds of the model.                                                    *)
(***************************************************************************)
MaxCodeLen == 4      \* longest dice code drawn from the whole alphabet
MaxDice == 3         \* largest dice count that is rolled
MaxWildRolls == 3    \* most faces the random source gives one wild die
MaxChain == 3        \* most chained bonuses of a generated dice code
MaxTotal == 31       \* largest |total| handed to _check_difficulty alone

(***************************************************************************)
(* Python str and int primitives.                                          *)
(***************************************************************************)
Digits == <<"0", "1", "2", "3", "4", "5", "6", "7", "8", "9">>
LowerLetters == <<"a", "b", "c", "d", "e", "f", "g", "h", "i", "j", "k", "l", "m",
                  "n", "o", "p", "q", "r", "s", "t", "u", "v", "w", "x", "y", "z">>
UpperLetters == <<"A", "B", "C", "D", "E", "F", "G", "H", "I", "J", "K", "L", "M",
                  "N", "O", "P", "Q", "R", "S", "T", "U", "V", "W", "X", "Y", "Z">>
Whitespace == {" ", "\t", "\n"}

DigitChars == {Digits[i] : i \in 1..10}
DigitVal(c) == (CHOOSE i \in 1..10 : Digits[i] = c) - 1
IsLower(c) == \E i \in 1..26 : LowerLetters[i] = c
IsUpper(c) == \E i \in 1..26 : UpperLetters[i] = c
UpperChar(c) == IF IsLower(c) THEN UpperLetters[CHOOSE i \in 1..26 : LowerLetters[i] = c] ELSE c
LowerChar(c) == IF IsUpper(c) THEN LowerLetters[CHOOSE i \in 1..26 : UpperLetters[i] = c] ELSE c

upper(s) == [i \in 1..Len(s) |-> UpperChar(s[i])]
lower(s) == [i \in 1..Len(s) |-> LowerChar(s[i])]
title(s) ==
    [i \in 1..Len(s) |->
        IF i > 1 /\ (IsLower(s[i-1]) \/ IsUpper(s[i-1])) THEN LowerChar(s[i]) ELSE UpperChar(s[i])]

RECURSIVE lstrip(_)
lstrip(s) == IF s # <<>> /\ s[1] \in Whitespace THEN lstrip(Tail(s)) ELSE s
RECURSIVE rstrip(_)
rstrip(s) == IF s # <<>> /\ s[Len(s)] \in Whitespace THEN rstrip(SubSeq(s, 1, Len(s) - 1)) ELSE s
strip(s) == rstrip(lstrip(s))

\* s.replace(old, new) for a one-character old
RECURSIVE replace(_, _, _)
replace(s, old, new) ==
    IF s = <<>> THEN <<>>
    ELSE (IF s[1] = old THEN new ELSE <<s[1]>>) \o replace(Tail(s), old, new)

\* s.split(sep) for a one-character sep
RECURSIVE split(_, _)
split(s, sep) ==
    IF \A i \in 1..Len(s) : s[i] # sep THEN <<s>>
    ELSE LET k == CHOOSE i \in 1..Len(s) : s[i] = sep /\ \A j \in 1..(i - 1) : s[j] # sep
         IN  <<SubSeq(s, 1, k - 1)>> \o split(SubSeq(s, k + 1, Len(s)), sep)

isdigit(s) == s # <<>> /\ \A i \in 1..Len(s) : s[i] \in DigitChars

RECURSIVE DecVal(_)
DecVal(s) == IF s = <<>> THEN 0 ELSE 10 * DecVal(SubSeq(s, 1, Len(s) - 1)) + DigitVal(s[Len(s)])

\* int(s): surrounding whitespace, one sign, digits with single underscores
\* between them; anything else is a ValueError (ok = FALSE)
int(s) ==
    LET t == strip(s)
        signed == t # <<>> /\ t[1] \in {"+", "-"}
        body == IF signed THEN Tail(t) ELSE t
        wellformed ==
            /\ body # <<>>
            /\ \A i \in 1..Len(body) : body[i] \in DigitChars \cup {"_"}
            /\ body[1] # "_" /\ body[Len(body)] # "_"
            /\ \A i \in 1..(Len(body) - 1) : ~(body[i] = "_" /\ body[i + 1] = "_")
        magnitude == DecVal(replace(body, "_", <<>>))
    IN  IF wellformed
        THEN [ok |-> TRUE, val |-> IF signed /\ t[1] = "-" THEN -magnitude ELSE magnitude]
        ELSE [ok |-> FALSE, val |-> 0]

RECURSIVE NatStr(_)
NatStr(n) == IF n < 10 THEN <<Digits[n + 1]>> ELSE NatStr(n \div 10) \o <<Digits[(n % 10) + 1]>>
str(n) == IF n < 0 THEN <<"-">> \o NatStr(-n) ELSE NatStr(n)

RECURSIVE sum(_)
sum(xs) == IF xs = <<>> THEN 0 ELSE xs[1] + sum(Tail(xs))

\* " + ".join(str(d) for d in xs)
RECURSIVE JoinPlus(_)
JoinPlus(xs) ==
    IF xs = <<>> THEN <<>>
    ELSE IF Len(xs) = 1 THEN str(xs[1])
    ELSE str(xs[1]) \o <<" + ">> \o JoinPlus(Tail(xs))

\* " ".join(parts)
RECURSIVE JoinSpace(_)
JoinSpace(parts) ==
    IF parts = <<>> THEN <<>>
    ELSE IF Len(parts) = 1 THEN parts[1]
    ELSE parts[1] \o <<" ">> \o JoinSpace(Tail(parts))

None == <<>>
Some(v) == <<v>>

(***************************************************************************)
(* _parse_dice_code                                                        *)
(***************************************************************************)
\* \d+D
MatchDicePart(p) == Len(p) >= 2 /\ p[Len(p)] = "D" /\ isdigit(SubSeq(p, 1, Len(p) - 1))
\* ^\d+D(\+\d+)?$
MatchStandard(c) ==
    LET parts == split(c, "+")
    IN  Len(parts) \in {1, 2} /\ MatchDicePart(parts[1])
        /\ \A i \in 2..Len(parts) : isdigit(parts[i])
\* ^\d+D(\+\d+)+$
MatchMultiBonus(c) ==
    LET parts == split(c, "+")
    IN  Len(parts) >= 2 /\ MatchDicePart(parts[1])
        /\ \A i \in 2..Len(parts) : isdigit(parts[i])
\* ^\d+D-\d+$
MatchNegative(c) ==
    LET parts == split(c, "-")
    IN  Len(parts) = 2 /\ MatchDicePart(parts[1]) /\ isdigit(parts[2])
\* mutant: ^[1-9]\d*$
MatchNumberNonZero(c) == isdigit(c) /\ c[1] # "0"

\* ^\d+$
MatchNumber(c) == isdigit(c)

Parsed(n, b) == [raised |-> FALSE, num_dice |-> n, bonus |-> b, msg |-> <<>>]
ValueError(m) == [raised |-> TRUE, num_dice |-> 0, bonus |-> 0, msg |-> m]

\* dice_code.strip().upper().replace(' ', '')
CleanCode(code) == replace(upper(strip(code)), " ", <<>>)

\* mutant: only the first bonus of a chain counts
SumBonusesFirst(ps) == IF ps = <<>> THEN 0 ELSE int(ps[1]).val

\* sum(int(x) for x in parts[1:] if x.isdigit())
RECURSIVE SumBonuses(_)
SumBonuses(ps) ==
    IF ps = <<>> THEN 0
    ELSE (IF isdigit(ps[1]) THEN int(ps[1]).val ELSE 0) + SumBonuses(Tail(ps))

_parse_dice_code(code) ==
    IF code = <<>> THEN Parsed(0, 0)
    ELSE LET c == CleanCode(code) IN
         IF MatchStandard(c) THEN
             LET parts == split(c, "+")
             IN  Parsed(int(replace(parts[1], "D", <<>>)).val,
                        IF Len(parts) > 1 THEN int(parts[2]).val ELSE 0)
         ELSE IF MatchMultiBonus(c) THEN
             LET parts == split(c, "+")
             IN  Parsed(int(replace(parts[1], "D", <<>>)).val, SumBonuses(Tail(parts)))
         ELSE IF MatchNegative(c) THEN
             LET parts == split(c, "-")
             IN  Parsed(int(replace(parts[1], "D", <<>>)).val, -int(parts[2]).val)
         ELSE IF MatchNumber(c) THEN Parsed(int(c).val, 0)
         ELSE ValueError(<<"Invalid dice code format: ">> \o c)

(***************************************************************************)
(* _create_breakdown and _check_difficulty                                 *)
(***************************************************************************)
_create_breakdown(results, bonus, wild_die_result, wild_exploded) ==
    IF results = <<>>
    THEN (IF bonus # 0 THEN <<"No dice + ">> \o str(bonus) ELSE <<"0">>)
    ELSE LET has_wild == wild_die_result # None /\ Len(results) > 0
             regular_dice == IF has_wild THEN SubSeq(results, 1, Len(results) - 1) ELSE results
             wild_die == IF has_wild THEN Some(results[Len(results)]) ELSE None
             regular_part ==
                 IF regular_dice # <<>>
                 THEN << <<"[">> \o JoinPlus(regular_dice) \o <<"]">> >> ELSE <<>>
             wild_part ==
                 IF wild_die # None
                 THEN << <<"Wild: ">> \o (IF wild_exploded
                                          THEN <<"**">> \o str(wild_die[1]) \o <<"**">>
                                          ELSE str(wild_die[1])) >>
                 ELSE <<>>
             bonus_part ==
                 IF bonus > 0 THEN << <<"+">> \o str(bonus) >>
                 ELSE IF bonus < 0 THEN << str(bonus) >> ELSE <<>>
             total == sum(results) + bonus
         IN  JoinSpace(regular_part \o wild_part \o bonus_part)
                 \o <<" = **">> \o str(total) \o <<"**">>

very_easy == <<"v", "e", "r", "y", "_", "e", "a", "s", "y">>
easy == <<"e", "a", "s", "y">>
moderate == <<"m", "o", "d", "e", "r", "a", "t", "e">>
difficult == <<"d", "i", "f", "f", "i", "c", "u", "l", "t">>
very_difficult == <<"v", "e", "r", "y", "_">> \o difficult
heroic == <<"h", "e", "r", "o", "i", "c">>
legendary == <<"l", "e", "g", "e", "n", "d", "a", "r", "y">>

difficulties ==
    (very_easy :> 1) @@ (easy :> 5) @@ (moderate :> 10) @@ (difficult :> 15)
    @@ (very_difficult :> 20) @@ (heroic :> 25) @@ (legendary :> 30)

\* mutant: an unknown difficulty counts as a failed check
UnknownDifficultyFailed(diff) ==
    [keys |-> {"name", "target", "success", "margin", "error"},
     name |-> diff,
     target |-> None,
     success |-> Some(FALSE),
     margin |-> None,
     error |-> <<"Unknown difficulty: ">> \o diff]

\* the dict of the "except ValueError" branch
UnknownDifficulty(diff) ==
    [keys |-> {"name", "target", "success", "margin", "error"},
     name |-> diff,
     target |-> None,
     success |-> None,
     margin |-> None,
     error |-> <<"Unknown difficulty: ">> \o diff]

\* mutant: total > target
MeetsTargetStrict(total, target) == total > target

\* total >= target
MeetsTarget(total, target) == total >= target

_check_difficulty(total, diff) ==
    LET difficulty_key == replace(lower(diff), " ", <<"_">>)
    IN  IF difficulty_key \in DOMAIN difficulties THEN
            LET target == difficulties[difficulty_key]
            IN  [keys |-> {"name", "target", "success", "margin"},
                 name |-> title(diff),
                 target |-> Some(target),
                 success |-> Some(MeetsTarget(total, target)),
                 margin |-> Some(total - target),
                 error |-> <<>>]
        ELSE IF int(diff).ok THEN
            LET target == int(diff).val
            IN  [keys |-> {"name", "target", "success", "margin"},
                 name |-> <<"Target ">> \o str(target),
                 target |-> Some(target),
                 success |-> Some(MeetsTarget(total, target)),
                 margin |-> Some(total - target),
                 error |-> <<>>]
        ELSE UnknownDifficulty(diff)

(***************************************************************************)
(* roll                                                                    *)
(***************************************************************************)
NoResult ==
    [keys |-> {}, error |-> <<>>, total |-> 0, dice_code |-> <<>>,
     individual_dice |-> <<>>, bonus |-> 0, breakdown |-> <<>>,
     wild_die_result |-> None, wild_die_exploded |-> FALSE,
     complications |-> <<>>, difficulty |-> None, success |-> None]

\* the dict of the except branch of roll
ErrorResult(code, e) ==
    [NoResult EXCEPT !.keys = {"error", "total", "dice_code", "breakdown"},
                     !.error = <<"Error rolling dice: ">> \o e,
                     !.total = 0,
                     !.dice_code = code,
                     !.breakdown = <<"Error: ">> \o e]

\* mutant: no except branch, the exception leaves roll
RollExceptReraise(code, e) == [pc |-> "raised", result |-> NoResult]

\* try: ... except Exception as e: return {...}
RollExcept(code, e) == [pc |-> "returned", result |-> ErrorResult(code, e)]

\* mutant: the bonus and the modifier are left out of the total
RollTotalNoBonus(results, bonus) == sum(results)

\* total of a roll that rolled dice
RollTotal(results, bonus) == sum(results) + bonus

\* the tail of roll: the difficulty check and the returned dict
RollResult(code, diff, total, results, bonus, breakdown, wild_die_result, wild_die_exploded, complications) ==
    LET difficulty_info ==
            IF diff # None /\ diff[1] # <<>>
            THEN Some(_check_difficulty(total, diff[1])) ELSE None
    IN  [keys |-> {"total", "dice_code", "individual_dice", "bonus", "breakdown",
                   "wild_die_result", "wild_die_exploded", "complications",
                   "difficulty", "success"},
         error |-> <<>>,
         total |-> total,
         dice_code |-> code,
         individual_dice |-> results,
         bonus |-> bonus,
         breakdown |-> breakdown,
         wild_die_result |-> wild_die_result,
         wild_die_exploded |-> wild_die_exploded,
         complications |-> complications,
         difficulty |-> difficulty_info,
         success |-> IF difficulty_info # None THEN difficulty_info[1].success ELSE None]

\* mutant: the wild die is rolled on top of num_dice regular dice
RegularDiceAll(n) == n

\* regular_dice = num_dice - 1 if self.use_wild_die and num_dice > 0 else num_dice
RegularDice(n) == IF use_wild_die /\ n > 0 THEN n - 1 ELSE n

\* mutant: randint(0, 6)
FacesFromZero == 0..6

\* self.random.randint(1, 6)
Faces == 1..6

\* where roll goes on with `rolled` regular dice rolled out of n dice
AfterDie(rolled, n) ==
    IF rolled < RegularDice(n) THEN "regular"
    ELSE IF use_wild_die /\ n > 0 THEN "wild" ELSE "finish"

\* mutant: a first face of 1 is an ordinary stop
WildStepQuietOne(w, roll) ==
    IF roll = 6 THEN
        [total |-> w.total + roll, exploded |-> TRUE,
         complications |-> w.complications, stop |-> FALSE]
    ELSE
        [total |-> w.total + roll, exploded |-> w.exploded,
         complications |-> w.complications, stop |-> TRUE]

\* mutant: a 5 rolls again as a 6 does
WildStepRollOnFive(w, roll) ==
    [total |-> w.total + roll,
     exploded |-> (w.exploded \/ roll = 6),
     complications |-> IF roll = 1
                       THEN Append(w.complications, "Wild die complication (rolled 1)")
                       ELSE w.complications,
     stop |-> roll \notin {5, 6}]

\* mutant: a 6 marks the explosion but does not roll again
WildStepStopOnSix(w, roll) ==
    [total |-> w.total + roll,
     exploded |-> (w.exploded \/ roll = 6),
     complications |-> IF roll = 1
                       THEN Append(w.complications, "Wild die complication (rolled 1)")
                       ELSE w.complications,
     stop |-> TRUE]

\* the body of the while loop of _roll_wild_die on the face rolled
WildStep(w, roll) ==
    IF roll = 1 THEN
        [total |-> w.total + roll, exploded |-> w.exploded,
         complications |-> Append(w.complications, "Wild die complication (rolled 1)"),
         stop |-> TRUE]
    ELSE IF roll = 6 THEN
        [total |-> w.total + roll, exploded |-> TRUE,
         complications |-> w.complications, stop |-> FALSE]
    ELSE
        [total |-> w.total + roll, exploded |-> w.exploded,
         complications |-> w.complications, stop |-> TRUE]

opVars == <<op, code2, modifier2, roll1, out, chk_total, chk_out>>
argVars == <<use_wild_die, dice_code, modifier, difficulty, dark_side_temptation>>
wildVars == <<wild_faces, wd_total, wd_exploded, wd_complications>>
parserVars == <<p_fn, p_arg, p_ret>>
botVars == <<db_users, db_sheets, db_shares, gm_members, waiting, sent, parsed_sheets>>
NoMessage == [cmd |-> "", author |-> "", kind |-> "", sheet |-> 0, data |-> 0]
BotIdle ==
    /\ db_users = {} /\ db_sheets = <<>> /\ db_shares = {}
    /\ gm_members = {} /\ waiting = {} /\ sent = NoMessage /\ parsed_sheets = <<>>

\* roll up to the first die: the parse, the no-dice case, the except branch
RollStart ==
    /\ pc = "start"
    /\ LET p == _parse_dice_code(dice_code) IN
        IF p.raised THEN
            /\ pc' = RollExcept(dice_code, p.msg).pc
            /\ result' = RollExcept(dice_code, p.msg).result
            /\ UNCHANGED <<num_dice, total_bonus>>
        ELSE
            /\ num_dice' = p.num_dice
            /\ total_bonus' = p.bonus + modifier
            /\ IF p.num_dice <= 0 THEN
                   /\ pc' = "returned"
                   /\ result' = RollResult(dice_code, difficulty, p.bonus + modifier, <<>>,
                                    p.bonus + modifier,
                                    IF p.bonus + modifier # 0
                                    THEN <<"No dice + ">> \o str(p.bonus + modifier)
                                    ELSE <<"0">>,
                                    None, FALSE, <<>>)
               ELSE
                   /\ pc' = AfterDie(0, p.num_dice)
                   /\ result' = result
    /\ UNCHANGED <<dice_results, draws>>
    /\ UNCHANGED wildVars /\ UNCHANGED argVars /\ UNCHANGED parserVars /\ UNCHANGED botVars /\ UNCHANGED opVars

\* one pass of: for i in range(regular_dice): dice_results.append(randint(1, 6))
RollRegular ==
    /\ pc = "regular"
    /\ \E face \in Faces :
        /\ dice_results' = Append(dice_results, face)
        /\ draws' = draws + 1
        /\ pc' = AfterDie(Len(dice_results) + 1, num_dice)
    /\ UNCHANGED <<num_dice, total_bonus, result>>
    /\ UNCHANGED wildVars /\ UNCHANGED argVars /\ UNCHANGED parserVars /\ UNCHANGED botVars /\ UNCHANGED opVars

\* one pass of the while loop of _roll_wild_die
RollWild ==
    /\ pc = "wild"
    /\ \E face \in Faces :
        /\ face = 6 => Len(wild_faces) + 1 < MaxWildRolls
        /\ wild_faces' = Append(wild_faces, face)
        /\ draws' = draws + 1
        /\ LET w == WildStep([total |-> wd_total, exploded |-> wd_exploded,
                              complications |-> wd_complications], face)
           IN  /\ wd_total' = w.total
               /\ wd_exploded' = w.exploded
               /\ wd_complications' = w.complications
               /\ pc' = IF w.stop THEN "finish" ELSE "wild"
    /\ UNCHANGED <<num_dice, total_bonus, dice_results, result>>
    /\ UNCHANGED argVars /\ UNCHANGED parserVars /\ UNCHANGED botVars /\ UNCHANGED opVars

\* the rest of roll once the dice are rolled
RollFinish ==
    /\ pc = "finish"
    /\ LET wild == use_wild_die /\ num_dice > 0
           wild_die_result == IF wild THEN Some(wd_total) ELSE None
           results == IF wild THEN Append(dice_results, wd_total) ELSE dice_results
           wild_die_exploded == IF wild THEN wd_exploded ELSE FALSE
           complications == IF wild THEN wd_complications ELSE <<>>
           total == RollTotal(results, total_bonus)
           breakdown == _create_breakdown(results, total_bonus, wild_die_result, wild_die_exploded)
       IN  /\ dice_results' = results
           /\ result' = RollResult(dice_code, difficulty, total, results, total_bonus,
                            breakdown, wild_die_result, wild_die_exploded, complications)
    /\ pc' = "returned"
    /\ UNCHANGED <<num_dice, total_bonus, draws>>
    /\ UNCHANGED wildVars /\ UNCHANGED argVars /\ UNCHANGED parserVars /\ UNCHANGED botVars /\ UNCHANGED opVars

(***************************************************************************)
(* roll_opposed and _check_difficulty called on its own                    *)
(***************************************************************************)
NoOpposed == [roll1 |-> NoResult, roll2 |-> NoResult, winner |-> 0, margin |-> 0, tie |-> FALSE]

\* mutant: roll 1 wins a tie
OpposedFirstWinsTies(r1, r2) ==
    LET winner == IF r1.total >= r2.total THEN 1 ELSE 2
        margin == IF r1.total >= r2.total THEN r1.total - r2.total ELSE r2.total - r1.total
    IN  [roll1 |-> r1, roll2 |-> r2, winner |-> winner, margin |-> margin, tie |-> (winner = 0)]

\* winner and margin of two totals
Opposed(r1, r2) ==
    LET winner == IF r1.total > r2.total THEN 1
                  ELSE IF r2.total > r1.total THEN 2 ELSE 0
        margin == IF r1.total > r2.total THEN r1.total - r2.total
                  ELSE IF r2.total > r1.total THEN r2.total - r1.total ELSE 0
    IN  [roll1 |-> r1, roll2 |-> r2, winner |-> winner, margin |-> margin, tie |-> (winner = 0)]

\* roll1 has returned: roll_opposed calls roll(dice_code2, modifier2)
OpposedSecond ==
    /\ op = "roll_opposed" /\ pc = "returned" /\ roll1 = None
    /\ roll1' = Some(result)
    /\ dice_code' = code2 /\ modifier' = modifier2 /\ difficulty' = None
    /\ pc' = "start"
    /\ num_dice' = 0 /\ total_bonus' = 0 /\ dice_results' = <<>>
    /\ wild_faces' = <<>> /\ wd_total' = 0 /\ wd_exploded' = FALSE /\ wd_complications' = <<>>
    /\ draws' = 0 /\ result' = NoResult
    /\ UNCHANGED <<use_wild_die, dark_side_temptation, op, code2, modifier2, out, chk_total, chk_out>>
    /\ UNCHANGED parserVars /\ UNCHANGED botVars

\* roll2 has returned: the comparison and the returned dict
OpposedReturn ==
    /\ op = "roll_opposed" /\ pc = "returned" /\ roll1 # None /\ out = None
    /\ out' = Some(Opposed(roll1[1], result))
    /\ pc' = "done"
    /\ UNCHANGED <<num_dice, total_bonus, dice_results, draws, result>>
    /\ UNCHANGED <<op, code2, modifier2, roll1, chk_total, chk_out>>
    /\ UNCHANGED wildVars /\ UNCHANGED argVars /\ UNCHANGED parserVars /\ UNCHANGED botVars

CheckDifficulty ==
    /\ op = "check_difficulty" /\ chk_out = None
    /\ chk_out' = Some(_check_difficulty(chk_total, difficulty[1]))
    /\ UNCHANGED <<pc, num_dice, total_bonus, dice_results, draws, result>>
    /\ UNCHANGED <<op, code2, modifier2, roll1, out, chk_total>>
    /\ UNCHANGED wildVars /\ UNCHANGED argVars /\ UNCHANGED parserVars /\ UNCHANGED botVars

(***************************************************************************)
(* roll_force_power                                                        *)
(***************************************************************************)
TemptationNote ==
    <<"Dark Side temptation - gain a Dark Side Point for easier success">>

\* base_roll.get('difficulty', {}).get('success') == False, asked only when
\* dark_side_temptation and base_roll.get('wild_die_result') == 1 hold; the
\* key 'difficulty' is in every dict roll returns without 'error', so the
\* default {} is never taken and the second .get is called on None when roll
\* was given no difficulty
TemptationTest(base_roll, temptation) ==
    IF ~(temptation /\ base_roll.wild_die_result = Some(1)) THEN
        [raised |-> FALSE, holds |-> FALSE]
    ELSE IF base_roll.difficulty = None THEN
        [raised |-> TRUE, holds |-> FALSE]
    ELSE
        [raised |-> FALSE, holds |-> (base_roll.difficulty[1].success = Some(FALSE))]

\* result = base_roll.copy() with the two keys added and the note appended
ForceResult(base_roll, temptation, noted) ==
    [keys |-> base_roll.keys \cup {"force_power", "dark_side_temptation"},
     force_power |-> TRUE,
     dark_side_temptation |-> temptation]
    @@ [base_roll EXCEPT !.complications =
            IF noted THEN Append(@, TemptationNote[1]) ELSE @]

roll_force_power(base_roll, temptation) ==
    IF "error" \in base_roll.keys THEN
        [raised |-> FALSE, ret |-> Some(base_roll)]
    ELSE IF TemptationTest(base_roll, temptation).raised THEN
        [raised |-> TRUE, ret |-> None]
    ELSE
        [raised |-> FALSE,
         ret |-> Some(ForceResult(base_roll, temptation,
                                  TemptationTest(base_roll, temptation).holds))]

\* roll has returned base_roll: the rest of roll_force_power
ForcePowerReturn ==
    /\ op = "roll_force_power" /\ pc = "returned" /\ out = None
    /\ LET r == roll_force_power(result, dark_side_temptation)
       IN  /\ out' = r.ret
           /\ pc' = IF r.raised THEN "raised" ELSE "done"
    /\ UNCHANGED <<num_dice, total_bonus, dice_results, draws, result>>
    /\ UNCHANGED <<op, code2, modifier2, roll1, chk_total, chk_out>>
    /\ UNCHANGED wildVars /\ UNCHANGED argVars /\ UNCHANGED parserVars /\ UNCHANGED botVars

(***************************************************************************)
(* Inputs                                                                  *)
(***************************************************************************)
Modifiers == {-2, 0, 3}

\* "+1+2+...+k"
RECURSIVE Chain(_)
Chain(k) == IF k = 0 THEN <<>> ELSE Chain(k - 1) \o <<"+">> \o str(k)

\* the accepted forms of a dice code for n dice
CodesFor(n) ==
    {str(n) \o <<"D">>, str(n) \o <<"D", "+", "2">>, str(n) \o <<"D", "-", "1">>, str(n)}
    \cup {str(n) \o <<"D">> \o Chain(k) : k \in 2..MaxChain}

MessyCodes ==
    {<<>>, <<" ", "2", "d", " ", "+", " ", "1", "\t">>, <<"0", "d", "+", "3">>,
     <<"D">>, <<"2", "D", "+">>, <<"2", "D", "+", "-", "1">>, <<"2", "D", "6">>,
     <<"x">>, <<" ">>, <<"2", "\t", "D">>, <<"-", "1", "D">>, <<"2", "D", "-", "1", "+", "1">>}

RollCodes == UNION {CodesFor(n) : n \in 0..MaxDice} \cup MessyCodes
DifficultyRollCodes == MessyCodes \cup CodesFor(0) \cup CodesFor(2)

RollDifficulties ==
    {None, Some(<<>>), Some(moderate),
     Some(<<"V", "e", "r", "y", " ", "E", "a", "s", "y">>),
     Some(<<" ", "7", " ">>), Some(<<"h", "a", "r", "d">>)}

CodeAlphabet == {"0", "1", "2", "D", "d", "+", "-", " ", "\t"}
Strings(alphabet, n) == UNION {[1..k -> alphabet] : k \in 0..n}
\* every string of the alphabet that is malformed or asks for at most MaxDice dice
AllCodes ==
    {c \in Strings(CodeAlphabet, MaxCodeLen) :
        _parse_dice_code(c).raised \/ _parse_dice_code(c).num_dice <= MaxDice}

TierSpellings(t) ==
    {t, upper(t), title(replace(t, "_", <<" ">>)), replace(upper(t), "_", <<" ">>),
     <<" ">> \o t, t \o <<" ">>, replace(t, "e", <<"e", " ">>), t \o <<"_">>}
NumberTargets == {0, 1, 9, 10, 25, MaxTotal}
NumberSpellings(n) ==
    {str(n), <<"+">> \o str(n), <<"-">> \o str(n), <<" ">> \o str(n) \o <<"\n">>,
     <<"0">> \o str(n), str(n) \o <<"_", "0">>, str(n) \o <<"_">>, str(n) \o <<"x">>,
     str(n) \o <<".", "0">>, <<"+", "-">> \o str(n), str(n) \o <<"_", "_", "0">>}
OtherDifficulties ==
    {<<>>, <<" ">>, <<"h", "a", "r", "d">>, <<"+">>, <<"_">>, <<"t", "e", "n">>}
DifficultyStrings ==
    UNION {TierSpellings(t) : t \in DOMAIN difficulties}
    \cup UNION {NumberSpellings(n) : n \in NumberTargets}
    \cup OtherDifficulties
Totals == (-3)..MaxTotal

OpposedCodes ==
    {<<"1", "D">>, <<"2", "D", "+", "1">>, <<"0", "D", "+", "4">>, <<"D">>, <<>>}

(***************************************************************************)
(* Specifications                                                          *)
(***************************************************************************)
RollIdle ==
    /\ num_dice = 0 /\ total_bonus = 0 /\ dice_results = <<>>
    /\ wild_faces = <<>> /\ wd_total = 0 /\ wd_exploded = FALSE /\ wd_complications = <<>>
    /\ draws = 0 /\ result = NoResult
ParserIdle == p_fn = "idle" /\ p_arg = <<>> /\ p_ret = <<>>
OpIdle ==
    /\ code2 = <<>> /\ modifier2 = 0 /\ roll1 = None /\ out = None
    /\ chk_total = 0 /\ chk_out = None

\* roll without a difficulty, on codes for up to MaxDice dice
Init ==
    /\ op = "roll" /\ pc = "start"
    /\ use_wild_die \in BOOLEAN
    /\ dark_side_temptation = FALSE
    /\ dice_code \in RollCodes
    /\ modifier \in Modifiers
    /\ difficulty = None
    /\ ParserIdle /\ BotIdle
    /\ RollIdle /\ OpIdle

Next == RollStart \/ RollRegular \/ RollWild \/ RollFinish

Spec == Init /\ [][Next]_vars

\* the wild die shows a face other than 6: the draw that ends _roll_wild_die
RollWildStop == RollWild /\ wild_faces'[Len(wild_faces')] # 6

\* roll of a few codes, run to its return while the random source does not
\* give 6 for ever
FairCodes ==
    {<<"3", "D", "+", "1">>, <<"1", "D">>, <<"0", "D", "+", "2">>, <<"2", "d", "+", "1", "+", "2">>, <<"x">>, <<>>}

InitFair ==
    /\ op = "roll" /\ pc = "start"
    /\ use_wild_die \in BOOLEAN
    /\ dark_side_temptation = FALSE
    /\ dice_code \in FairCodes
    /\ modifier = 0
    /\ difficulty = None
    /\ ParserIdle /\ BotIdle
    /\ RollIdle /\ OpIdle

\* RollStart as the program counter shows it: the step that leaves "start"
RollStarts == pc = "start" /\ pc' \in {"regular", "wild", "finish", "returned"}

SpecFair ==
    /\ InitFair /\ [][Next]_vars
    /\ WF_pc(RollStarts) /\ WF_vars(RollRegular) /\ WF_vars(RollWildStop) /\ WF_vars(RollFinish)

\* roll with a difficulty, and _check_difficulty on its own
InitRollDifficulty ==
    /\ op = "roll" /\ pc = "start"
    /\ use_wild_die \in BOOLEAN
    /\ dark_side_temptation = FALSE
    /\ dice_code \in DifficultyRollCodes
    /\ modifier \in Modifiers
    /\ difficulty \in RollDifficulties
    /\ ParserIdle /\ BotIdle
    /\ RollIdle /\ OpIdle

InitCheck ==
    /\ op = "check_difficulty" /\ pc = "idle"
    /\ use_wild_die = TRUE /\ dice_code = <<>> /\ modifier = 0
    /\ dark_side_temptation = FALSE
    /\ difficulty \in {Some(d) : d \in DifficultyStrings}
    /\ ParserIdle /\ BotIdle
    /\ RollIdle
    /\ code2 = <<>> /\ modifier2 = 0 /\ roll1 = None /\ out = None
    /\ chk_total \in Totals /\ chk_out = None

InitDifficulty == InitRollDifficulty \/ InitCheck

NextDifficulty == RollStart \/ RollRegular \/ RollWild \/ RollFinish \/ CheckDifficulty

SpecDifficulty == InitDifficulty /\ [][NextDifficulty]_vars

\* roll on every string of the alphabet
InitCode ==
    /\ op = "roll" /\ pc = "start"
    /\ use_wild_die \in BOOLEAN
    /\ dark_side_temptation = FALSE
    /\ dice_code \in AllCodes \cup UNION {CodesFor(n) : n \in 0..MaxDice}
    /\ modifier \in {0, 3}
    /\ difficulty = None
    /\ ParserIdle /\ BotIdle
    /\ RollIdle /\ OpIdle

NextCode == RollStart \/ RollRegular \/ RollWild \/ RollFinish

SpecCode == InitCode /\ [][NextCode]_vars

InitOpposed ==
    /\ op = "roll_opposed" /\ pc = "start"
    /\ use_wild_die \in BOOLEAN
    /\ dark_side_temptation = FALSE
    /\ dice_code \in OpposedCodes /\ code2 \in OpposedCodes
    /\ modifier \in {0, 1} /\ modifier2 = 0
    /\ difficulty = None
    /\ ParserIdle /\ BotIdle
    /\ RollIdle
    /\ roll1 = None /\ out = None /\ chk_total = 0 /\ chk_out = None

NextOpposed ==
    RollStart \/ RollRegular \/ RollWild \/ RollFinish \/ OpposedSecond \/ OpposedReturn

SpecOpposed == InitOpposed /\ [][NextOpposed]_vars

\* roll_force_power with and without a difficulty
ForceCodes ==
    {<<"1", "D">>, <<"2", "D", "+", "1">>, <<"0", "D", "+", "1">>, <<"x">>, <<>>}

InitForce ==
    /\ op = "roll_force_power" /\ pc = "start"
    /\ use_wild_die \in BOOLEAN
    /\ dark_side_temptation \in BOOLEAN
    /\ dice_code \in ForceCodes
    /\ modifier = 0
    /\ difficulty \in RollDifficulties
    /\ ParserIdle /\ BotIdle
    /\ RollIdle /\ OpIdle

NextForce == RollStart \/ RollRegular \/ RollWild \/ RollFinish \/ ForcePowerReturn

SpecForce == InitForce /\ [][NextForce]_vars

(***************************************************************************)
(* The dice-code forms as the specification lists them, read left to       *)
(* right: digits, then nothing, or D followed by nothing, by -digits, or   *)
(* by one or more +digits.                                                 *)
(***************************************************************************)
LeadDigits(c) ==
    CHOOSE k \in 0..Len(c) :
        /\ \A i \in 1..k : c[i] \in DigitChars
        /\ (k = Len(c) \/ c[k + 1] \notin DigitChars)

RECURSIVE ChainOK(_)
ChainOK(t) ==
    /\ Len(t) >= 2 /\ t[1] = "+"
    /\ LET k == LeadDigits(Tail(t))
       IN  k >= 1 /\ (k = Len(t) - 1 \/ ChainOK(SubSeq(t, k + 2, Len(t))))

RECURSIVE ChainSum(_)
ChainSum(t) ==
    IF t = <<>> THEN 0
    ELSE LET k == LeadDigits(Tail(t))
         IN  DecVal(SubSeq(t, 2, k + 1)) + ChainSum(SubSeq(t, k + 2, Len(t)))

FormTail(t) ==
    \/ t = <<>>
    \/ ChainOK(t)
    \/ (Len(t) >= 2 /\ t[1] = "-" /\ LeadDigits(Tail(t)) = Len(t) - 1)

IsForm(c) ==
    LET k == LeadDigits(c)
    IN  k >= 1 /\ (k = Len(c) \/ (c[k + 1] = "D" /\ FormTail(SubSeq(c, k + 2, Len(c)))))

FormDice(c) == DecVal(SubSeq(c, 1, LeadDigits(c)))

FormBonus(c) ==
    LET k == LeadDigits(c)
        t == SubSeq(c, k + 2, Len(c))
    IN  IF k = Len(c) \/ t = <<>> THEN 0
        ELSE IF t[1] = "-" THEN -DecVal(Tail(t)) ELSE ChainSum(t)

NotSpace(ch) == ch # " "
\* upper-cased, spaces removed
AsWritten(code) == upper(SelectSeq(code, NotSpace))
\* leading and trailing whitespace dropped first
Trimmed(code) ==
    IF \A i \in 1..Len(code) : code[i] \in Whitespace THEN <<>>
    ELSE LET first == CHOOSE i \in 1..Len(code) :
                          code[i] \notin Whitespace /\ \A j \in 1..(i - 1) : code[j] \in Whitespace
             last == CHOOSE i \in 1..Len(code) :
                          code[i] \notin Whitespace /\ \A j \in (i + 1)..Len(code) : code[j] \in Whitespace
         IN  SubSeq(code, first, last)
AsCleaned(code) == upper(SelectSeq(Trimmed(code), NotSpace))

EndsWith(s, suffix) ==
    Len(s) >= Len(suffix) /\ SubSeq(s, Len(s) - Len(suffix) + 1, Len(s)) = suffix

RollReturned == op = "roll" /\ pc = "returned"
IsError(r) == "error" \in r.keys
\* the running roll has a code of one of the forms, for n dice
RollOfForm == IsForm(AsCleaned(dice_code))
FormN == FormDice(AsCleaned(dice_code))
FormB == FormBonus(AsCleaned(dice_code))

(***************************************************************************)
(* Claims                                                                  *)
(***************************************************************************)
ErrorStated ==
    /\ IsError(result) /\ result.total = 0
    /\ result.error = <<"Error rolling dice: ", "Invalid dice code format: ">> \o AsCleaned(dice_code)
    /\ result.breakdown = <<"Error: ", "Invalid dice code format: ">> \o AsCleaned(dice_code)

\* C1 (as amended): roll never raises and always ends by returning a dict
\* with a total and a breakdown, for every dice code, modifier and
\* difficulty; when the dice code is not empty and is of none of the accepted
\* forms, the dict has total 0, an 'error' entry and a breakdown stating the
\* error.  (The empty dice code is rolled as zero dice, without error.)
C1_NeverRaises ==
    op = "roll" =>
        /\ pc \in {"start", "regular", "wild", "finish", "returned"}
        /\ pc = "returned" =>
            /\ {"total", "dice_code", "breakdown"} \subseteq result.keys
            /\ result.dice_code = dice_code
            /\ (dice_code # <<>> /\ ~RollOfForm) => ErrorStated

\* C1 as stated: every dice code of none of the accepted forms, the empty
\* one too, gives total 0 and an 'error' entry.
C1_Original ==
    RollReturned /\ ~RollOfForm => ErrorStated

C1_Witness ==
    /\ RollReturned /\ dice_code = <<"2", "D", "+">> /\ modifier = 3
    /\ difficulty = Some(<<"h", "a", "r", "d">>)
    /\ IsError(result) /\ result.total = 0

\* C2: with the wild die enabled and N >= 1 dice, total = sum of the N-1
\* ordinary dice + sum of the faces of the wild die + bonus of the code +
\* modifier, and the breakdown ends with that total.
C2_Total ==
    RollReturned /\ use_wild_die /\ RollOfForm /\ FormN >= 1 =>
        /\ ~IsError(result)
        /\ Len(result.individual_dice) >= FormN - 1
        /\ result.total = sum(SubSeq(result.individual_dice, 1, FormN - 1))
                            + sum(wild_faces) + FormB + modifier
        /\ EndsWith(result.breakdown, <<" = **">> \o str(result.total) \o <<"**">>)

C2_Witness ==
    /\ RollReturned /\ use_wild_die /\ dice_code = <<"3", "D", "+", "1", "+", "2">>
    /\ modifier = -2 /\ wild_faces = <<6, 6, 4>> /\ result.individual_dice = <<2, 5, 16>>
    /\ result.total = 24
    /\ result.breakdown = <<"[", "2", " + ", "5", "]", " ", "Wild: ", "**", "1", "6", "**",
                            " ", "+", "1", " = **", "2", "4", "**">>

\* C3: the wild die adds every face to its subtotal, stops on 1 with exactly
\* one complication, stops on 2..5 with none, and on 6 marks the explosion
\* and rolls again; faces 6,1 give an exploded wild die with a complication,
\* a first face of 1 gives subtotal 1, a complication and no explosion.
C3_WildDie ==
    op = "roll" =>
        /\ wd_total = sum(wild_faces)
        /\ pc = "wild" =>
            /\ \A i \in 1..Len(wild_faces) : wild_faces[i] = 6
            /\ wd_exploded = (wild_faces # <<>>)
            /\ wd_complications = <<>>
        /\ (pc \in {"finish", "returned"} /\ wild_faces # <<>>) =>
            LET last == wild_faces[Len(wild_faces)] IN
            /\ \A i \in 1..(Len(wild_faces) - 1) : wild_faces[i] = 6
            /\ last # 6
            /\ wd_exploded = (Len(wild_faces) > 1)
            /\ wd_complications =
                   IF last = 1 THEN <<"Wild die complication (rolled 1)">> ELSE <<>>
        /\ (pc = "returned" /\ wild_faces = <<6, 1>>) =>
            /\ result.wild_die_exploded
            /\ result.complications = <<"Wild die complication (rolled 1)">>
            /\ result.wild_die_result = Some(7)
        /\ (pc = "returned" /\ wild_faces = <<1>>) =>
            /\ result.wild_die_result = Some(1)
            /\ result.complications = <<"Wild die complication (rolled 1)">>
            /\ ~result.wild_die_exploded

C3_Witness ==
    RollReturned /\ wild_faces = <<6, 1>> /\ result.wild_die_exploded
        /\ Len(result.complications) = 1

\* C4 (as amended): every entry of individual_dice is an integer in 1..6,
\* except the last entry when the wild die exploded: that entry is the sum
\* of the wild die's faces and is at least 7.
C4_DiceRange ==
    RollReturned /\ ~IsError(result) =>
        LET dice == result.individual_dice IN
        /\ \A i \in 1..Len(dice) :
               (i < Len(dice) \/ ~result.wild_die_exploded) => dice[i] \in 1..6
        /\ result.wild_die_exploded =>
               dice # <<>> /\ dice[Len(dice)] = sum(wild_faces) /\ dice[Len(dice)] >= 7

\* C4 as stated: every entry is in 1..6, also when the wild die exploded.
C4_Original ==
    RollReturned /\ ~IsError(result) =>
        \A i \in 1..Len(result.individual_dice) : result.individual_dice[i] \in 1..6

C4_Witness ==
    /\ RollReturned /\ result.wild_die_exploded
    /\ result.individual_dice = <<6, 1, 8>>

OrdinaryDice == IF use_wild_die THEN FormN - 1 ELSE FormN

\* C5 (as amended): for a valid code with N >= 1, individual_dice holds the
\* ordinary dice and the wild die together in exactly N entries, also when
\* the wild die exploded; every ordinary die is in 1..6.
C5_DiceCount ==
    RollReturned /\ RollOfForm /\ FormN >= 1 =>
        /\ ~IsError(result)
        /\ Len(result.individual_dice) = FormN
        /\ \A i \in 1..OrdinaryDice : result.individual_dice[i] \in 1..6

\* C5 as stated: at least N entries, and more than N when the wild die
\* exploded.
C5_Original ==
    RollReturned /\ RollOfForm /\ FormN >= 1 =>
        /\ ~IsError(result)
        /\ Len(result.individual_dice) >= FormN
        /\ result.wild_die_exploded => Len(result.individual_dice) > FormN
        /\ \A i \in 1..OrdinaryDice : result.individual_dice[i] \in 1..6

C5_Witness ==
    /\ RollReturned /\ dice_code = <<"3", "D">> /\ result.wild_die_exploded
    /\ Len(wild_faces) = 3 /\ Len(result.individual_dice) = 3

\* C6: a code for N <= 0 dice draws no die, and returns an empty
\* individual_dice, no wild-die result, no complication and
\* total = bonus of the code + modifier.
C6_NoDice ==
    op = "roll" /\ RollOfForm /\ FormN <= 0 =>
        /\ draws = 0 /\ wild_faces = <<>> /\ dice_results = <<>>
        /\ pc \in {"start", "returned"}
        /\ pc = "returned" =>
            /\ ~IsError(result)
            /\ result.individual_dice = <<>>
            /\ result.wild_die_result = None
            /\ ~result.wild_die_exploded
            /\ result.complications = <<>>
            /\ result.total = FormB + modifier

C6_Witness ==
    /\ RollReturned /\ dice_code = <<"0", "d", "+", "3">> /\ modifier = -2
    /\ use_wild_die /\ result.total = 1 /\ result.individual_dice = <<>>
    /\ result.breakdown = <<"No dice + ", "1">>

\* C7 (as amended): after dropping leading and trailing whitespace,
\* upper-casing and removing spaces, roll accepts exactly the forms ND,
\* ND+M, ND+M1+M2+... (bonus M1+M2+...), ND-M (bonus -M) and N (bonus 0),
\* and the empty dice code, which it rolls as zero dice with bonus 0; every
\* other string gives the error result with total 0.
C7_Forms ==
    RollReturned =>
        IF dice_code = <<>> THEN
            /\ ~IsError(result) /\ result.individual_dice = <<>>
            /\ result.bonus = modifier /\ result.total = modifier
        ELSE IF RollOfForm THEN
            /\ ~IsError(result)
            /\ num_dice = FormN
            /\ Len(result.individual_dice) = FormN
            /\ result.bonus = FormB + modifier
        ELSE ErrorStated

\* C7 as stated: exactly the forms after upper-casing and removing spaces;
\* every other string, the empty one included, is an error with total 0.
C7_Original ==
    RollReturned =>
        IF IsForm(AsWritten(dice_code)) THEN
            /\ ~IsError(result)
            /\ Len(result.individual_dice) = FormDice(AsWritten(dice_code))
            /\ result.bonus = FormBonus(AsWritten(dice_code)) + modifier
        ELSE IsError(result) /\ result.total = 0

C7_Witness ==
    /\ RollReturned /\ dice_code = <<"2", "D", "+", "1", "+", "2">> /\ modifier = 3
    /\ result.bonus = 6 /\ Len(result.individual_dice) = 2

(***************************************************************************)
(* Difficulties as the specification names them                            *)
(***************************************************************************)
NamedTiers ==
    {<<very_easy, 1>>, <<easy, 5>>, <<moderate, 10>>, <<difficult, 15>>,
     <<very_difficult, 20>>, <<heroic, 25>>, <<legendary, 30>>}

\* d spells the tier name t, in any letter case, a space or an underscore
\* where the name has an underscore
SpellsTier(d, t) ==
    /\ Len(d) = Len(t)
    /\ \A i \in 1..Len(t) :
           IF t[i] = "_" THEN d[i] \in {"_", " "} ELSE d[i] \in {t[i], UpperChar(t[i])}

IsTierName(d) == \E t \in NamedTiers : SpellsTier(d, t[1])

\* an optional sign and decimal digits
Unsigned(d) == IF d # <<>> /\ d[1] \in {"+", "-"} THEN Tail(d) ELSE d
IsLiteral(d) == Unsigned(d) # <<>> /\ LeadDigits(Unsigned(d)) = Len(Unsigned(d))
LiteralValue(d) == IF d[1] = "-" THEN -DecVal(Unsigned(d)) ELSE DecVal(Unsigned(d))

Outcome(o, total, target) ==
    /\ o.target = Some(target)
    /\ o.success = Some(total >= target)
    /\ o.margin = Some(total - target)

Absent(o, d) ==
    /\ o.target = None /\ o.success = None /\ o.margin = None
    /\ "error" \in o.keys /\ o.error = <<"Unknown difficulty: ">> \o d

Checked == op = "check_difficulty" /\ chk_out # None

C9_UnknownDifficulty ==
    /\ (Checked /\ ~IsTierName(difficulty[1]) /\ ~int(difficulty[1]).ok) =>
           Absent(chk_out[1], difficulty[1])
    /\ (RollReturned /\ difficulty # None
            /\ ~IsTierName(difficulty[1]) /\ ~int(difficulty[1]).ok
            /\ (dice_code = <<>> \/ RollOfForm)) =>
           /\ ~IsError(result)
           /\ result.success = None
           /\ result.total = sum(result.individual_dice)
                               + (IF dice_code = <<>> THEN 0 ELSE FormB) + modifier
           /\ difficulty[1] # <<>> =>
                  result.difficulty # None /\ Absent(result.difficulty[1], difficulty[1])

C9_Witness ==
    /\ RollReturned /\ difficulty = Some(<<"h", "a", "r", "d">>)
    /\ dice_code = <<"2", "D", "+", "2">> /\ modifier = 3
    /\ result.individual_dice = <<4, 5>> /\ result.total = 14
    /\ result.success = None /\ result.difficulty[1].target = None

\* C10: roll_opposed makes two rolls and reports winner 1 iff total1 >
\* total2, 2 iff total2 > total1, 0 iff the totals are equal, the absolute
\* difference as margin and tie = (winner = 0).
C10_Opposed ==
    (op = "roll_opposed" /\ out # None) =>
        LET o == out[1]
            t1 == roll1[1].total
            t2 == result.total
        IN  /\ o.roll1 = roll1[1] /\ o.roll2 = result
            /\ o.roll2.dice_code = code2
            /\ o.winner \in {0, 1, 2}
            /\ (o.winner = 1) = (t1 > t2)
            /\ (o.winner = 2) = (t2 > t1)
            /\ (o.winner = 0) = (t1 = t2)
            /\ o.margin = IF t1 >= t2 THEN t1 - t2 ELSE t2 - t1
            /\ o.tie = (o.winner = 0)

C10_Witness ==
    /\ op = "roll_opposed" /\ out # None
    /\ out[1].tie /\ out[1].winner = 0 /\ out[1].margin = 0
    /\ out[1].roll1.total = 7 /\ out[1].roll2.total = 7
    /\ out[1].roll1.individual_dice # <<>> /\ out[1].roll2.individual_dice # <<>>

(***************************************************************************)
(* Character sheet parser (src/parser.py).                                 *)
(*                                                                         *)
(* A run of a parser method is two states: p_fn names the method and p_arg *)
(* holds its arguments, then p_ret holds <<v>> for the returned value v.   *)
(***************************************************************************)
engineVars == <<use_wild_die, dice_code, modifier, difficulty, dark_side_temptation, pc, num_dice, total_bonus, dice_results, wild_faces, wd_total, wd_exploded, wd_complications, draws, result, op, code2, modifier2, roll1, out, chk_total, chk_out>>

EngineIdle ==
    /\ op = "idle" /\ pc = "idle"
    /\ use_wild_die = TRUE /\ dice_code = <<>> /\ modifier = 0 /\ difficulty = None
    /\ dark_side_temptation = FALSE
    /\ RollIdle /\ OpIdle

\* a Python str literal as a sequence of characters
Chars(s) == [i \in 1..Len(s) |-> SubSeq(s, i, i)]

(***************************************************************************)
(* _normalize_dice_code                                                    *)
(***************************************************************************)
\* ^\d+D(\+\d+)?\+\d+$
MatchBonusPlus(c) ==
    LET parts == split(c, "+")
    IN  Len(parts) \in {2, 3} /\ MatchDicePart(parts[1])
        /\ \A i \in 2..Len(parts) : isdigit(parts[i])
\* ^\d+\+\d+$
MatchNumberPlus(c) ==
    LET parts == split(c, "+")
    IN  Len(parts) = 2 /\ isdigit(parts[1]) /\ isdigit(parts[2])

\* mutant: the dice letter is appended in lower case
NumberCodeLower(c) == c \o <<"d">>

\* f"{dice_code}D"
NumberCode(c) == c \o <<"D">>

\* f"{base}+{total_bonus}" if total_bonus > 0 else base
BonusCode(base, bonus) == IF bonus > 0 THEN base \o <<"+">> \o str(bonus) ELSE base

_normalize_dice_code(code) ==
    IF code = <<>> THEN <<"2", "D">>
    ELSE LET c == replace(upper(strip(code)), " ", <<>>) IN
         IF MatchStandard(c) THEN c
         ELSE IF MatchBonusPlus(c) THEN
             LET parts == split(c, "+")
             IN  BonusCode(parts[1], SumBonuses(Tail(parts)))
         ELSE IF MatchNumber(c) THEN NumberCode(c)
         ELSE IF MatchNumberPlus(c) THEN
             LET parts == split(c, "+")
             IN  parts[1] \o <<"D", "+">> \o parts[2]
         ELSE <<"2", "D">>

NormalizeDiceCode ==
    /\ p_fn = "_normalize_dice_code" /\ p_ret = None
    /\ p_ret' = Some(_normalize_dice_code(p_arg))
    /\ UNCHANGED <<p_fn, p_arg>> /\ UNCHANGED engineVars /\ UNCHANGED botVars

\* every string of the alphabet, and the chained and messy codes
NormalizeInputs ==
    Strings(CodeAlphabet, MaxCodeLen) \cup UNION {CodesFor(n) : n \in 0..MaxDice} \cup MessyCodes

InitNormalize ==
    /\ p_fn = "_normalize_dice_code" /\ p_arg \in NormalizeInputs /\ p_ret = None
    /\ EngineIdle /\ BotIdle

NextNormalize == NormalizeDiceCode

SpecNormalize == InitNormalize /\ [][NextNormalize]_vars

(***************************************************************************)
(* The skill taxonomy and the skill-name functions                         *)
(***************************************************************************)
attributes ==
    <<Chars("dexterity"), Chars("knowledge"), Chars("mechanical"),
      Chars("perception"), Chars("strength"), Chars("technical")>>

dexterity_skills ==
    <<Chars("blaster"), Chars("brawling_parry"), Chars("dodge"), Chars("firearms"),
      Chars("lightsaber"), Chars("melee_combat"), Chars("melee_parry"), Chars("pick_pocket"),
      Chars("running"), Chars("thrown_weapons"), Chars("vehicle_blasters"),
      Chars("archaic_guns"), Chars("blaster_artillery"), Chars("bowcaster"), Chars("grenade"),
      Chars("heavy_weapons")>>
knowledge_skills ==
    <<Chars("alien_species"), Chars("bureaucracy"), Chars("cultures"), Chars("intimidation"),
      Chars("languages"), Chars("planetary_systems"), Chars("scholar"), Chars("streetwise"),
      Chars("survival"), Chars("tactics"), Chars("technology"), Chars("willpower"),
      Chars("business"), Chars("law_enforcement"), Chars("value"), Chars("jedi_lore"),
      Chars("sith_lore")>>
mechanical_skills ==
    <<Chars("astrogation"), Chars("beast_riding"), Chars("communications"),
      Chars("computer_programming"), Chars("piloting"), Chars("repulsorlift_operation"),
      Chars("sensors"), Chars("space_transports"), Chars("starfighter_piloting"),
      Chars("starship_gunnery"), Chars("starship_shields"), Chars("swoop_operation"),
      Chars("walker_operation"), Chars("capital_ship_piloting"), Chars("capital_ship_gunnery"),
      Chars("capital_ship_shields")>>
perception_skills ==
    <<Chars("bargain"), Chars("command"), Chars("con"), Chars("forgery"), Chars("gambling"),
      Chars("hide"), Chars("investigation"), Chars("persuasion"), Chars("search"),
      Chars("sneak"), Chars("artist"), Chars("entertain"), Chars("sleight_of_hand")>>
strength_skills ==
    <<Chars("brawling"), Chars("climbing"), Chars("jumping"), Chars("lifting"),
      Chars("stamina"), Chars("swimming")>>
technical_skills ==
    <<Chars("armor_repair"), Chars("blaster_repair"), Chars("computer_repair"),
      Chars("demolitions"), Chars("droid_programming"), Chars("droid_repair"),
      Chars("first_aid"), Chars("lightsaber_repair"), Chars("medicine"),
      Chars("repulsorlift_repair"), Chars("security"), Chars("space_transports_repair"),
      Chars("starfighter_repair"), Chars("capital_ship_repair"), Chars("walker_repair")>>

\* self.skill_categories, in the order of the dict
skill_categories ==
    <<dexterity_skills, knowledge_skills, mechanical_skills,
      perception_skills, strength_skills, technical_skills>>

force_powers ==
    <<Chars("accelerate_healing"), Chars("absorb_dissipate_energy"), Chars("concentration"),
      Chars("control_pain"), Chars("detoxify_poison"), Chars("enhance_attribute"),
      Chars("hibernation_trance"), Chars("reduce_injury"), Chars("remain_conscious"),
      Chars("resist_stun"), Chars("combat_sense"), Chars("danger_sense"),
      Chars("life_detection"), Chars("life_sense"), Chars("magnify_senses"),
      Chars("receptive_telepathy"), Chars("sense_force"), Chars("telekinesis"),
      Chars("lightsaber_combat"), Chars("projective_telepathy"), Chars("affect_mind"),
      Chars("control_mind"), Chars("transfer_force")>>

\* the characters re.sub(r'[\s\-]+', ...) replaces
Separators == Whitespace \cup {"-"}

RECURSIVE DropSeparators(_)
DropSeparators(s) == IF s # <<>> /\ s[1] \in Separators THEN DropSeparators(Tail(s)) ELSE s

\* re.sub(r'[\s\-]+', '_', s)
RECURSIVE SubSeparators(_)
SubSeparators(s) ==
    IF s = <<>> THEN <<>>
    ELSE IF s[1] \in Separators THEN <<"_">> \o SubSeparators(DropSeparators(s))
    ELSE <<s[1]>> \o SubSeparators(Tail(s))

\* the dict aliases of _normalize_skill_name
aliases ==
    (Chars("lightsabre") :> Chars("lightsaber")) @@ (Chars("melee") :> Chars("melee_combat"))
    @@ (Chars("brawl") :> Chars("brawling")) @@ (Chars("pilot") :> Chars("piloting"))
    @@ (Chars("astro") :> Chars("astrogation"))
    @@ (Chars("computer") :> Chars("computer_programming"))
    @@ (Chars("repair") :> Chars("blaster_repair")) @@ (Chars("medicine") :> Chars("medicine"))
    @@ (Chars("first_aid") :> Chars("first_aid"))

\* mutant: the alias table is not consulted
AliasIgnored(normalized) == normalized

\* aliases.get(normalized, normalized)
AliasOf(normalized) == IF normalized \in DOMAIN aliases THEN aliases[normalized] ELSE normalized

_normalize_skill_name(skill_name) == AliasOf(SubSeparators(strip(lower(skill_name))))

Elements(xs) == {xs[i] : i \in 1..Len(xs)}

\* all_skills of _is_valid_skill
all_skills == UNION {Elements(skill_categories[i]) : i \in 1..Len(skill_categories)}

_is_valid_skill(skill_name) == skill_name \in all_skills \/ skill_name \in Elements(force_powers)

\* the first category, in dict order, holding a skill that normalizes to the query
get_skill_attribute(skill_name) ==
    LET normalized == _normalize_skill_name(skill_name)
        has(i) == \E k \in 1..Len(skill_categories[i]) :
                      _normalize_skill_name(skill_categories[i][k]) = normalized
    IN  IF \E i \in 1..Len(attributes) : has(i)
        THEN Some(attributes[CHOOSE i \in 1..Len(attributes) : has(i) /\ \A j \in 1..(i - 1) : ~has(j)])
        ELSE None

NormalizeSkillName ==
    /\ p_fn = "_normalize_skill_name" /\ p_ret = None
    /\ p_ret' = Some(_normalize_skill_name(p_arg))
    /\ UNCHANGED <<p_fn, p_arg>> /\ UNCHANGED engineVars /\ UNCHANGED botVars

GetSkillAttribute ==
    /\ p_fn = "get_skill_attribute" /\ p_ret = None
    /\ p_ret' = Some(get_skill_attribute(p_arg))
    /\ UNCHANGED <<p_fn, p_arg>> /\ UNCHANGED engineVars /\ UNCHANGED botVars

\* spellings of a name: case, separators, surrounding and doubled whitespace
NameSpellings(t) ==
    {t, upper(t), replace(t, "_", <<" ">>), title(replace(t, "_", <<" ">>)),
     replace(t, "_", <<"-">>),
     replace(upper(t), "_", <<" ", " ">>), <<" ">> \o t \o <<"\n">>,
     replace(t, "_", <<" ", "-", " ">>), replace(t, "_", <<>>), replace(t, "_", <<"_", "_">>)}

SkillNames ==
    all_skills \cup Elements(force_powers) \cup DOMAIN aliases
    \cup {Chars("light_saber"), Chars("basket_weaving"), Chars("dexterity"), <<>>}

SkillQueries == UNION {NameSpellings(t) : t \in SkillNames}

InitSkill ==
    /\ p_fn \in {"_normalize_skill_name", "get_skill_attribute"}
    /\ p_arg \in SkillQueries /\ p_ret = None
    /\ EngineIdle /\ BotIdle

NextSkill == NormalizeSkillName \/ GetSkillAttribute

SpecSkill == InitSkill /\ [][NextSkill]_vars

(***************************************************************************)
(* Python values whose type the code does not fix (JSON values, the name   *)
(* of a character) carry their type.  A str is a sequence of characters,   *)
(* a list a sequence of values, and a dict has its keys in insertion       *)
(* order and the function from each key to its value.                      *)
(***************************************************************************)
PyStr(s) == [type |-> "str", v |-> s]
PyInt(n) == [type |-> "int", v |-> n]
PyBool(b) == [type |-> "bool", v |-> b]
PyNone == [type |-> "NoneType", v |-> <<>>]
PyList(xs) == [type |-> "list", v |-> xs]

\* the keys of a sequence of <<key, value>> items, each at its first place
RECURSIVE ItemKeys(_)
ItemKeys(items) ==
    IF items = <<>> THEN <<>>
    ELSE LET before == ItemKeys(SubSeq(items, 1, Len(items) - 1))
             k == items[Len(items)][1]
         IN  IF \E i \in 1..Len(before) : before[i] = k THEN before ELSE Append(before, k)
\* each key with the value of its last item
ItemValues(items) ==
    [k \in {items[i][1] : i \in 1..Len(items)} |->
        items[CHOOSE i \in 1..Len(items) :
                  items[i][1] = k /\ \A j \in (i + 1)..Len(items) : items[j][1] # k][2]]
PyDict(items) == [type |-> "dict", keys |-> ItemKeys(items), v |-> ItemValues(items)]

\* d.get(k, default)
Get(d, k, default) == IF k \in DOMAIN d THEN d[k] ELSE default

\* the dataclass StarWarsCharacter
StarWarsCharacter(name, template, attrs, skills, force_points, character_points, dark_side_points, force_sensitive, equipment, credits) ==
    [name |-> name, template |-> template, attributes |-> attrs, skills |-> skills,
     force_points |-> force_points, character_points |-> character_points,
     dark_side_points |-> dark_side_points, force_sensitive |-> force_sensitive,
     equipment |-> equipment, credits |-> credits]

(***************************************************************************)
(* Untrained skills                                                        *)
(***************************************************************************)
\* the length of the run of digits that s starts with
RECURSIVE DigitRun(_)
DigitRun(s) == IF s # <<>> /\ s[1] \in DigitChars THEN 1 + DigitRun(Tail(s)) ELSE 0

\* re.match(r'(\d+)D(\+(\d+))?', dice_code): the groups 1 and 3, or None
MatchPenaltyCode(code) ==
    LET n == DigitRun(code) IN
    IF n = 0 \/ Len(code) = n \/ code[n + 1] # "D" THEN None
    ELSE LET rest == SubSeq(code, n + 2, Len(code))
             m == IF rest # <<>> /\ rest[1] = "+" THEN DigitRun(Tail(rest)) ELSE 0
         IN  Some([base |-> SubSeq(code, 1, n),
                   bonus |-> IF m > 0 THEN Some(SubSeq(rest, 2, m + 1)) ELSE None])

\* mutant: no floor at '1D'
PenaltyUnfloored(code, penalty_dice) ==
    LET match == MatchPenaltyCode(code) IN
    IF match = None THEN <<"1", "D">>
    ELSE LET base_dice == int(match[1].base).val
             bonus_pips == IF match[1].bonus # None THEN int(match[1].bonus[1]).val ELSE 0
             total_pips == (base_dice * 3) + bonus_pips - (penalty_dice * 3)
         IN  IF total_pips % 3 > 0 THEN str(total_pips \div 3) \o <<"D", "+">> \o str(total_pips % 3)
             ELSE str(total_pips \div 3) \o <<"D">>

_apply_dice_penalty(code, penalty_dice) ==
    LET match == MatchPenaltyCode(code) IN
    IF match = None THEN <<"1", "D">>
    ELSE LET base_dice == int(match[1].base).val
             bonus_pips == IF match[1].bonus # None THEN int(match[1].bonus[1]).val ELSE 0
             total_pips == (base_dice * 3) + bonus_pips - (penalty_dice * 3)
             new_dice == total_pips \div 3
             new_bonus == total_pips % 3
         IN  IF total_pips <= 3 THEN <<"1", "D">>
             ELSE IF new_bonus > 0 THEN str(new_dice) \o <<"D", "+">> \o str(new_bonus)
             ELSE str(new_dice) \o <<"D">>

\* character.attributes.get(governing_attr, '2D'); None is never a key
GoverningDice(attrs, governing_attr) ==
    IF governing_attr = None THEN <<"2", "D">> ELSE Get(attrs, governing_attr[1], <<"2", "D">>)

calculate_untrained_skill(character, skill_name) ==
    _apply_dice_penalty(GoverningDice(character.attributes, get_skill_attribute(skill_name)), 1)

\* mutant: the stored data is resolved with the one-die penalty too
UntrainedFromDataPenalized(character_data, skill_name) == calculate_untrained_skill([attributes |-> Get(character_data, "attributes", <<>>)], skill_name)

calculate_untrained_skill_from_data(character_data, skill_name) ==
    GoverningDice(Get(character_data, "attributes", <<>>), get_skill_attribute(skill_name))

\* find_skill_key of bot.py: the key of skills_dict that a spelling of skill
\* equals, letter case aside (the first one in dict order; keys without
\* spaces, as the parser stores them, give at most one)
find_skill_key(skills_dict, skill) ==
    LET skill_variants ==
            {skill, lower(skill), replace(lower(skill), " ", <<"_">>),
             replace(lower(skill), "_", <<" ">>), replace(skill, " ", <<"_">>),
             replace(skill, "_", <<" ">>)}
        found == {key \in DOMAIN skills_dict : \E variant \in skill_variants : lower(key) = lower(variant)}
    IN  IF found = {} THEN None ELSE Some(CHOOSE key \in found : TRUE)

\* the dice code the roll command of bot.py picks for a stored sheet
roll_dice_code(data, skill) ==
    LET skill_key == find_skill_key(data.skills, skill)
        as_attr == replace(lower(skill), " ", <<"_">>)
        attrs == {lower(k) : k \in DOMAIN data.attributes}
        governing_attr == get_skill_attribute(skill)
    IN  IF skill_key # None THEN [kind |-> "skill", dice_code |-> data.skills[skill_key[1]]]
        ELSE IF as_attr \in DOMAIN data.attributes
            THEN [kind |-> "attribute", dice_code |-> data.attributes[as_attr]]
        ELSE IF governing_attr # None /\ lower(governing_attr[1]) \in attrs
            THEN [kind |-> "untrained", dice_code |-> calculate_untrained_skill_from_data(data, skill)]
        ELSE [kind |-> "not found", dice_code |-> <<>>]

CalculateUntrainedSkill ==
    /\ p_fn = "calculate_untrained_skill" /\ p_ret = None
    /\ p_ret' = Some(calculate_untrained_skill(p_arg.character, p_arg.skill_name))
    /\ UNCHANGED <<p_fn, p_arg>> /\ UNCHANGED engineVars /\ UNCHANGED botVars

CalculateUntrainedSkillFromData ==
    /\ p_fn = "calculate_untrained_skill_from_data" /\ p_ret = None
    /\ p_ret' = Some(calculate_untrained_skill_from_data(p_arg.character, p_arg.skill_name))
    /\ UNCHANGED <<p_fn, p_arg>> /\ UNCHANGED engineVars /\ UNCHANGED botVars

RollDiceCode ==
    /\ p_fn = "roll_dice" /\ p_ret = None
    /\ p_ret' = Some(roll_dice_code(p_arg.character, p_arg.skill_name))
    /\ UNCHANGED <<p_fn, p_arg>> /\ UNCHANGED engineVars /\ UNCHANGED botVars

\* stored attribute codes, stored skills and the skills asked for
AttributeCodes == {Chars("1D"), Chars("1D+2"), Chars("2D"), Chars("3D+1"), Chars("4D+2")}
SheetAttributes ==
    {(Chars("dexterity") :> d) @@ (Chars("knowledge") :> Chars("2D"))
        @@ (Chars("mechanical") :> Chars("2D")) @@ (Chars("perception") :> p)
        @@ (Chars("strength") :> Chars("3D")) @@ (Chars("technical") :> t) :
        d \in AttributeCodes, p \in AttributeCodes, t \in {Chars("2D"), Chars("3D+2")}}
SheetSkills ==
    {<<>>, (Chars("blaster") :> Chars("5D+1")),
     (Chars("bargain") :> Chars("4D")) @@ (Chars("first_aid") :> Chars("3D"))}
Sheets ==
    {StarWarsCharacter(PyStr(Chars("Han")), PyStr(Chars("Smuggler")), a, s, 1, 5, 0, FALSE, <<>>, 1000) :
        a \in SheetAttributes, s \in SheetSkills}
RolledSkills ==
    {Chars("bargain"), Chars("Bargain"), Chars("blaster"), Chars("first aid"),
     Chars("Lightsabre"), Chars("light saber"), Chars("melee-combat"), Chars("telekinesis"),
     Chars("perception"), Chars("basket weaving")}

InitUntrained ==
    /\ p_fn \in {"calculate_untrained_skill", "calculate_untrained_skill_from_data", "roll_dice"}
    /\ p_arg \in [character : Sheets, skill_name : RolledSkills]
    /\ p_ret = None
    /\ EngineIdle /\ BotIdle

NextUntrained == CalculateUntrainedSkill \/ CalculateUntrainedSkillFromData \/ RollDiceCode

SpecUntrained == InitUntrained /\ [][NextUntrained]_vars

(***************************************************************************)
(* Python's treatment of a value: truth, str(), int(), x or y              *)
(***************************************************************************)
Truthy(x) ==
    CASE x.type = "str" -> x.v # <<>>
      [] x.type = "int" -> x.v # 0
      [] x.type = "bool" -> x.v
      [] x.type = "list" -> x.v # <<>>
      [] x.type = "dict" -> x.keys # <<>>
      [] OTHER -> FALSE

Or(x, y) == IF Truthy(x) THEN x ELSE y

\* ", ".join(parts)
RECURSIVE JoinComma(_)
JoinComma(parts) ==
    IF parts = <<>> THEN <<>>
    ELSE IF Len(parts) = 1 THEN parts[1]
    ELSE parts[1] \o <<",", " ">> \o JoinComma(Tail(parts))

\* repr(x), and str(x), which differs for a str only
RECURSIVE repr(_)
repr(x) ==
    CASE x.type = "str" -> <<"'">> \o x.v \o <<"'">>
      [] x.type = "int" -> str(x.v)
      [] x.type = "bool" -> IF x.v THEN Chars("True") ELSE Chars("False")
      [] x.type = "list" -> <<"[">> \o JoinComma([i \in 1..Len(x.v) |-> repr(x.v[i])]) \o <<"]">>
      [] x.type = "dict" ->
            <<"{">> \o JoinComma([i \in 1..Len(x.keys) |->
                          <<"'">> \o x.keys[i] \o <<"'", ":", " ">> \o repr(x.v[x.keys[i]])]) \o <<"}">>
      [] OTHER -> Chars("None")
PyStrOf(x) == IF x.type = "str" THEN x.v ELSE repr(x)

Return(v) == [raised |-> FALSE, exc |-> "", msg |-> <<>>, value |-> v]
Raise(exc, msg) == [raised |-> TRUE, exc |-> exc, msg |-> msg, value |-> <<>>]

\* int(x): a ValueError for a str that is no integer, a TypeError for None,
\* a list or a dict
PyIntOf(x) ==
    CASE x.type = "int" -> Return(x.v)
      [] x.type = "bool" -> Return(IF x.v THEN 1 ELSE 0)
      [] x.type = "str" ->
            IF int(x.v).ok THEN Return(int(x.v).val)
            ELSE Raise("ValueError", <<"invalid literal for int() with base 10: ">> \o repr(x))
      [] OTHER -> Raise("TypeError", <<"int() argument must be a string, a bytes-like object or a real number, not ", x.type>>)

\* d.get(key, default) of a dict value
DictGet(d, key, default) == Get(d.v, key, default)

\* d[key] = value of a dict kept as a function
Put(d, key, value) == [k \in DOMAIN d \cup {key} |-> IF k = key THEN value ELSE d[k]]

(***************************************************************************)
(* The JSON strategy                                                       *)
(***************************************************************************)
attribute_aliases ==
    (Chars("dex") :> Chars("dexterity")) @@ (Chars("know") :> Chars("knowledge"))
    @@ (Chars("mech") :> Chars("mechanical")) @@ (Chars("perc") :> Chars("perception"))
    @@ (Chars("str") :> Chars("strength")) @@ (Chars("tech") :> Chars("technical"))

capitalize(s) == [i \in 1..Len(s) |-> IF i = 1 THEN UpperChar(s[i]) ELSE LowerChar(s[i])]

\* the four probes of attr_data for one attribute, joined by "or"
JsonAttributeValue(attr_data, attr) ==
    Or(DictGet(attr_data, attr, PyNone),
       Or(DictGet(attr_data, capitalize(attr), PyNone),
          Or(DictGet(attr_data, upper(attr), PyNone),
             DictGet(attr_data, Get(attribute_aliases, attr, attr), PyNone))))

JsonAttributes(attr_data) ==
    [attr \in Elements(attributes) |->
        LET value == JsonAttributeValue(attr_data, attr)
        IN  IF Truthy(value) THEN _normalize_dice_code(PyStrOf(value)) ELSE Chars("2D")]

\* mutant: the code of a skill is stored as written
SkillCodeAsWritten(code) == PyStrOf(code)

\* self._normalize_dice_code(str(code))
JsonSkillCode(code) == _normalize_dice_code(PyStrOf(code))

\* skills after the first n items of skills_data
RECURSIVE JsonSkills(_, _)
JsonSkills(skills_data, n) ==
    IF n = 0 THEN <<>>
    ELSE LET skills == JsonSkills(skills_data, n - 1)
             skill_name == skills_data.keys[n]
             code == skills_data.v[skill_name]
         IN  IF Truthy(code)
             THEN Put(skills, _normalize_skill_name(skill_name), JsonSkillCode(code))
             ELSE skills

\* [item.strip() for item in s.split(',') if item.strip()]
SplitItems(s) ==
    LET items == split(s, ",")
        kept == SelectSeq([i \in 1..Len(items) |-> strip(items[i])], LAMBDA item : item # <<>>)
    IN  [i \in 1..Len(kept) |-> PyStr(kept[i])]

JsonEquipment(equipment) ==
    IF equipment.type = "str" THEN SplitItems(equipment.v)
    ELSE IF equipment.type = "list" THEN equipment.v
    ELSE <<>>

NoAttribute(type, name) == Raise("AttributeError", <<"'", type, "' object has no attribute '", name, "'">>)

_parse_json_data(data) ==
    IF data.type # "dict" THEN NoAttribute(data.type, "get")
    ELSE
    LET key(k) == Chars(k)
        name == DictGet(data, key("name"), DictGet(data, key("character_name"), PyStr(Chars("Unknown"))))
        template == DictGet(data, key("template"), DictGet(data, key("character_template"), PyStr(Chars("Unknown"))))
        attr_data == DictGet(data, key("attributes"), DictGet(data, key("stats"), PyDict(<<>>)))
        skills_data == DictGet(data, key("skills"), PyDict(<<>>))
        force_points == PyIntOf(DictGet(data, key("force_points"), DictGet(data, key("forcePoints"), PyInt(1))))
        character_points == PyIntOf(DictGet(data, key("character_points"), DictGet(data, key("characterPoints"), PyInt(5))))
        dark_side_points == PyIntOf(DictGet(data, key("dark_side_points"), DictGet(data, key("darkSidePoints"), PyInt(0))))
        force_sensitive == Truthy(DictGet(data, key("force_sensitive"), DictGet(data, key("forceSensitive"), PyBool(FALSE))))
        equipment == JsonEquipment(DictGet(data, key("equipment"), PyList(<<>>)))
        credits == PyIntOf(DictGet(data, key("credits"), DictGet(data, key("money"), PyInt(1000))))
    IN  IF attr_data.type # "dict" THEN NoAttribute(attr_data.type, "get")
        ELSE IF skills_data.type # "dict" THEN NoAttribute(skills_data.type, "items")
        ELSE IF force_points.raised THEN force_points
        ELSE IF character_points.raised THEN character_points
        ELSE IF dark_side_points.raised THEN dark_side_points
        ELSE IF credits.raised THEN credits
        ELSE Return(StarWarsCharacter(name, template, JsonAttributes(attr_data),
                        JsonSkills(skills_data, Len(skills_data.keys)),
                        force_points.value, character_points.value, dark_side_points.value,
                        force_sensitive, equipment, credits.value))

\* a file content: its characters, and the value json.loads decodes them to
\* (None when they are no JSON document, which raises JSONDecodeError)
Content(text, json) == [text |-> text, json |-> json]

parse_json_content(content) ==
    IF content.json = None
    THEN Raise("ValueError", <<"Invalid JSON format: ", "JSONDecodeError">>)
    ELSE _parse_json_data(content.json[1])

(***************************************************************************)
(* The CSV strategy, for content without quotes and carriage returns       *)
(***************************************************************************)
Count(s, ch) == Cardinality({i \in 1..Len(s) : s[i] = ch})

\* ';' if ';' in content and content.count(';') > content.count(',') else ','
Delimiter(content) ==
    IF Count(content, ";") > 0 /\ Count(content, ";") > Count(content, ",") THEN ";" ELSE ","

\* the rows csv.reader yields: one per line, an empty line giving []
CsvRows(text, delimiter) ==
    LET lines == split(text, "\n")
        ended == IF lines[Len(lines)] = <<>> THEN SubSeq(lines, 1, Len(lines) - 1) ELSE lines
    IN  [i \in 1..Len(ended) |-> IF ended[i] = <<>> THEN <<>> ELSE split(ended[i], delimiter)]

\* next(csv.DictReader(...)): the first row names the fields and the next
\* row that is not empty is the data; cells beyond the fields go to "rest"
\* (the key None), fields beyond the cells get None
DictReaderNext(rows) ==
    LET data_rows == {i \in 2..Len(rows) : rows[i] # <<>>} IN
    IF rows = <<>> \/ data_rows = {} THEN Raise("StopIteration", <<>>)
    ELSE LET fieldnames == rows[1]
             row == rows[CHOOSE i \in data_rows : \A j \in data_rows : i <= j]
             lf == Len(fieldnames)
             lr == Len(row)
             zipped == [i \in 1..(IF lf < lr THEN lf ELSE lr) |-> <<fieldnames[i], PyStr(row[i])>>]
             missing == [i \in 1..(IF lf > lr THEN lf - lr ELSE 0) |-> <<fieldnames[lr + i], PyNone>>]
         IN  Return([keys |-> ItemKeys(zipped \o missing), v |-> ItemValues(zipped \o missing),
                     rest |-> IF lf < lr THEN Some(SubSeq(row, lf + 1, lr)) ELSE None])

\* int(value) if value and value.strip() else default, the default on
\* ValueError and TypeError
_safe_int(value, default) ==
    IF value.type = "str" /\ strip(value.v) # <<>> /\ int(value.v).ok
    THEN int(value.v).val ELSE default

\* value and value.strip(), for a cell (a str or None)
CellFilled(value) == value.type = "str" /\ strip(value.v) # <<>>

CsvAttributeValue(data, attr) ==
    Or(DictGet(data, capitalize(attr), PyNone),
       Or(DictGet(data, upper(attr), PyNone),
          Or(DictGet(data, attr, PyNone),
             DictGet(data, capitalize(attr) \o Chars(" Dice"), PyNone))))

CsvAttributes(data) ==
    [attr \in Elements(attributes) |->
        LET value == CsvAttributeValue(data, attr)
        IN  IF CellFilled(value) THEN _normalize_dice_code(strip(value.v)) ELSE Chars("2D")]

\* skills after the first n columns
RECURSIVE CsvSkills(_, _)
CsvSkills(data, n) ==
    IF n = 0 THEN <<>>
    ELSE LET skills == CsvSkills(data, n - 1)
             value == data.v[data.keys[n]]
             normalized_key == _normalize_skill_name(data.keys[n])
         IN  IF CellFilled(value) /\ _is_valid_skill(normalized_key)
             THEN Put(skills, normalized_key, _normalize_dice_code(strip(value.v)))
             ELSE skills

_parse_csv_data(data) ==
    LET key(k) == Chars(k)
        name == DictGet(data, key("Name"), DictGet(data, key("Character Name"), PyStr(Chars("Unknown"))))
        template == DictGet(data, key("Template"), DictGet(data, key("Character Template"), PyStr(Chars("Unknown"))))
        force_points == _safe_int(DictGet(data, key("Force Points"), DictGet(data, key("Force_Points"), PyStr(Chars("1")))), 1)
        character_points == _safe_int(DictGet(data, key("Character Points"), DictGet(data, key("Character_Points"), PyStr(Chars("5")))), 5)
        dark_side_points == _safe_int(DictGet(data, key("Dark Side Points"), DictGet(data, key("Dark_Side_Points"), PyStr(Chars("0")))), 0)
        force_sensitive_str == DictGet(data, key("Force Sensitive"), DictGet(data, key("Force_Sensitive"), PyStr(<<>>)))
        equipment_str == DictGet(data, key("Equipment"), PyStr(<<>>))
        credits == _safe_int(DictGet(data, key("Credits"), PyStr(Chars("1000"))), 1000)
    IN  IF data.rest # None THEN NoAttribute("list", "strip")
        ELSE IF force_sensitive_str.type # "str" THEN NoAttribute(force_sensitive_str.type, "lower")
        ELSE Return(StarWarsCharacter(name, template, CsvAttributes(data),
                        CsvSkills(data, Len(data.keys)),
                        force_points, character_points, dark_side_points,
                        lower(force_sensitive_str.v) \in {Chars("yes"), Chars("true"), Chars("1"), Chars("y")},
                        IF Truthy(equipment_str) THEN SplitItems(equipment_str.v) ELSE <<>>,
                        credits))

\* except Exception as e: raise ValueError(f"Error parsing CSV: {str(e)}")
CsvExcept(e) == Raise("ValueError", <<"Error parsing CSV: ">> \o e.msg)

parse_csv_content(content) ==
    LET data == DictReaderNext(CsvRows(content.text, Delimiter(content.text)))
        parsed == IF data.raised THEN data ELSE _parse_csv_data(data.value)
    IN  IF parsed.raised THEN CsvExcept(parsed) ELSE parsed

(***************************************************************************)
(* The free-text strategy.  A regular expression is matched at a position  *)
(* of the text; re.search takes the leftmost position that matches.        *)
(***************************************************************************)
\* the character at position i, "" past the end
At(t, i) == IF i \in 1..Len(t) THEN t[i] ELSE ""

\* \w
IsWord(c) == c \in DigitChars \/ IsLower(c) \/ IsUpper(c) \/ c = "_"

\* the position after \s* at i
RECURSIVE SkipSpace(_, _)
SkipSpace(t, i) == IF At(t, i) \in Whitespace THEN SkipSpace(t, i + 1) ELSE i

\* the position after \s*:?\s* at i, each part taking all it can
SepEnd(t, i) ==
    LET j == SkipSpace(t, i) IN IF At(t, j) = ":" THEN SkipSpace(t, j + 1) ELSE j

\* the literal w (in lower case) at i, with re.IGNORECASE
LitAt(t, i, w) == i + Len(w) - 1 <= Len(t) /\ \A k \in 1..Len(w) : LowerChar(t[i + k - 1]) = w[k]

\* the length of the run of digits at i
DigitsAt(t, i) == IF i > Len(t) THEN 0 ELSE DigitRun(SubSeq(t, i, Len(t)))

\* [0-9]+D(?:\+[0-9]+)? at i: the position after it, 0 if it does not match
CodeEnd(t, i, ignorecase) ==
    LET n == DigitsAt(t, i)
        d == At(t, i + n)
        m == IF At(t, i + n + 1) = "+" THEN DigitsAt(t, i + n + 2) ELSE 0
    IN  IF n = 0 \/ ~(d = "D" \/ (ignorecase /\ d = "d")) THEN 0
        ELSE IF m > 0 THEN i + n + 2 + m ELSE i + n + 1

\* re.search: what M gives at the leftmost position where it is not None
Search(t, M(_)) ==
    LET found == {s \in 1..(Len(t) + 1) : M(s) # None}
    IN  IF found = {} THEN None ELSE M(CHOOSE s \in found : \A r \in found : s <= r)

\* (?:w1|w2)\s*:?\s*([0-9]+D(?:\+[0-9]+)?) at s, re.IGNORECASE: group 1
AttributeMatchAt(t, s, alternatives) ==
    LET try(w) ==
            IF ~LitAt(t, s, w) THEN None
            ELSE LET c == SepEnd(t, s + Len(w))
                     e == CodeEnd(t, c, TRUE)
                 IN  IF e > 0 THEN Some(SubSeq(t, c, e - 1)) ELSE None
    IN  IF try(alternatives[1]) # None THEN try(alternatives[1]) ELSE try(alternatives[2])

\* rf'(?:{attr}|{self.attribute_aliases.get(attr, "")})...'
AttributePattern(attr) == <<attr, Get(attribute_aliases, attr, <<>>)>>

TextAttributes(text) ==
    [attr \in Elements(attributes) |->
        LET match == Search(text, LAMBDA s : AttributeMatchAt(text, s, AttributePattern(attr)))
        IN  IF match # None THEN _normalize_dice_code(match[1]) ELSE Chars("2D")]

\* the first position from i on that holds neither \w nor \s
RECURSIVE RunEnd(_, _)
RunEnd(t, i) == IF IsWord(At(t, i)) \/ At(t, i) \in Whitespace THEN RunEnd(t, i + 1) ELSE i

\* (\w+(?:\s+\w+)*)\s*:?\s*([0-9]+D(?:\+[0-9]+)?) at s: group 1 is the
\* longest run of words after which the rest matches
SkillMatchAt(t, s) ==
    IF ~IsWord(At(t, s)) THEN None
    ELSE LET ends == {e \in (s + 1)..RunEnd(t, s) :
                         IsWord(t[e - 1]) /\ CodeEnd(t, SepEnd(t, e), FALSE) > 0}
         IN  IF ends = {} THEN None
             ELSE LET e == CHOOSE x \in ends : \A y \in ends : x >= y
                      c == SepEnd(t, e)
                  IN  Some([name |-> SubSeq(t, s, e - 1),
                            code |-> SubSeq(t, c, CodeEnd(t, c, FALSE) - 1),
                            end |-> CodeEnd(t, c, FALSE)])

\* re.finditer(skill_pattern, text) from position pos on
RECURSIVE FindSkills(_, _)
FindSkills(t, pos) ==
    LET starts == {s \in pos..Len(t) : SkillMatchAt(t, s) # None}
    IN  IF starts = {} THEN <<>>
        ELSE LET match == SkillMatchAt(t, CHOOSE s \in starts : \A r \in starts : s <= r)[1]
             IN  <<match>> \o FindSkills(t, match.end)

\* skills after the first n matches
RECURSIVE TextSkills(_, _)
TextSkills(matches, n) ==
    IF n = 0 THEN <<>>
    ELSE LET skills == TextSkills(matches, n - 1)
             skill_name == _normalize_skill_name(matches[n].name)
         IN  IF _is_valid_skill(skill_name)
             THEN Put(skills, skill_name, _normalize_dice_code(matches[n].code))
             ELSE skills

\* where the group of \s*:?\s*(.+) begins when the separator starts at p:
\* the last place the separator can end at that leaves the group a
\* character ("." is any character with re.DOTALL, any but a newline
\* without); 0 if there is none
GroupStart(t, p, dotall) ==
    LET j1 == SkipSpace(t, p)
        colon == At(t, j1) = ":"
        j2 == IF colon THEN SkipSpace(t, j1 + 1) ELSE j1
        starts == {q \in (IF colon THEN j1 ELSE p)..j2 : q <= Len(t) /\ (dotall \/ t[q] # "\n")}
    IN  IF starts = {} THEN 0 ELSE CHOOSE q \in starts : \A r \in starts : q >= r

\* the position of the first newline from q on, or the one after the end
RECURSIVE LineEnd(_, _)
LineEnd(t, q) == IF q > Len(t) \/ t[q] = "\n" THEN q ELSE LineEnd(t, q + 1)

\* (?:w1|w2|...)\s*:?\s*(.+) at s, re.IGNORECASE: group 1
LabelMatchAt(t, s, labels) ==
    LET hits == {i \in 1..Len(labels) : LitAt(t, s, labels[i]) /\ GroupStart(t, s + Len(labels[i]), FALSE) > 0}
    IN  IF hits = {} THEN None
        ELSE LET w == labels[CHOOSE i \in hits : \A j \in hits : i <= j]
                 q == GroupStart(t, s + Len(w), FALSE)
             IN  Some(SubSeq(t, q, LineEnd(t, q) - 1))

\* group(1).strip() of the leftmost match, or 'Unknown'
TextLabel(text, labels) ==
    LET match == Search(text, LAMBDA s : LabelMatchAt(text, s, labels))
    IN  PyStr(IF match # None THEN strip(match[1]) ELSE Chars("Unknown"))

\* w1\s+w2\s+...\s+wk at s, re.IGNORECASE: the position after it, or 0
RECURSIVE WordsEnd(_, _, _)
WordsEnd(t, s, words) ==
    IF ~LitAt(t, s, words[1]) THEN 0
    ELSE IF Len(words) = 1 THEN s + Len(words[1])
    ELSE LET j == SkipSpace(t, s + Len(words[1]))
         IN  IF j > s + Len(words[1]) THEN WordsEnd(t, j, Tail(words)) ELSE 0

\* w1\s+...\s+wks?\s*:?\s*(\d+) at s, re.IGNORECASE: group 1
NumberMatchAt(t, s, words) ==
    LET e == WordsEnd(t, s, words)
        c == SepEnd(t, IF LowerChar(At(t, e)) = "s" THEN e + 1 ELSE e)
        n == DigitsAt(t, c)
    IN  IF e > 0 /\ n > 0 THEN Some(SubSeq(t, c, c + n - 1)) ELSE None

\* int(match.group(1)) if match else default
TextNumber(text, words, default) ==
    LET match == Search(text, LAMBDA s : NumberMatchAt(text, s, words))
    IN  IF match # None THEN int(match[1]).val ELSE default

\* re.split(r'[,\n]', s)
RECURSIVE SplitCommaNewline(_)
SplitCommaNewline(s) ==
    IF \A i \in 1..Len(s) : s[i] \notin {",", "\n"} THEN <<s>>
    ELSE LET k == CHOOSE i \in 1..Len(s) : s[i] \in {",", "\n"} /\ \A j \in 1..(i - 1) : s[j] \notin {",", "\n"}
         IN  <<SubSeq(s, 1, k - 1)>> \o SplitCommaNewline(SubSeq(s, k + 1, Len(s)))

\* equipment\s*:?\s*(.+?)(?:\n|$) at s, re.IGNORECASE | re.DOTALL: group 1
\* is the least that reaches a newline or the end
EquipmentMatchAt(t, s) ==
    LET q == GroupStart(t, s + 9, TRUE)
    IN  IF LitAt(t, s, Chars("equipment")) /\ q > 0
        THEN Some(SubSeq(t, q, LineEnd(t, q + 1) - 1))
        ELSE None

TextEquipment(text) ==
    LET match == Search(text, LAMBDA s : EquipmentMatchAt(text, s))
    IN  IF match = None THEN <<>>
        ELSE LET items == SplitCommaNewline(match[1])
                 kept == SelectSeq([i \in 1..Len(items) |-> strip(items[i])], LAMBDA item : item # <<>>)
             IN  [i \in 1..Len(kept) |-> PyStr(kept[i])]

_parse_text_data(text) ==
    LET matches == FindSkills(text, 1)
        force_sensitive ==
            \E s \in 1..Len(text) : WordsEnd(text, s, <<Chars("force"), Chars("sensitive")>>) > 0
    IN  StarWarsCharacter(
            TextLabel(text, <<Chars("name"), Chars("character")>>),
            TextLabel(text, <<Chars("template")>>),
            TextAttributes(text),
            TextSkills(matches, Len(matches)),
            TextNumber(text, <<Chars("force"), Chars("point")>>, 1),
            TextNumber(text, <<Chars("character"), Chars("point")>>, 5),
            TextNumber(text, <<Chars("dark"), Chars("side"), Chars("point")>>, 0),
            force_sensitive,
            TextEquipment(text),
            TextNumber(text, <<Chars("credit")>>, 1000))

parse_text_sheet(content) == Return(_parse_text_data(content.text))

(***************************************************************************)
(* parse_file and to_dict                                                  *)
(***************************************************************************)
endswith(s, suffix) ==
    Len(s) >= Len(suffix) /\ SubSeq(s, Len(s) - Len(suffix) + 1, Len(s)) = suffix

parse_file(content, filename) ==
    LET name == lower(filename)
        stripped == strip(content.text)
    IN  IF endswith(name, Chars(".json")) THEN parse_json_content(content)
        ELSE IF endswith(name, Chars(".csv")) THEN parse_csv_content(content)
        ELSE IF endswith(name, Chars(".txt")) \/ endswith(name, Chars(".text")) THEN parse_text_sheet(content)
        ELSE IF At(stripped, 1) = "{" /\ At(stripped, Len(stripped)) = "}" THEN parse_json_content(content)
        ELSE IF Count(stripped, ",") > 0 /\ Count(stripped, "\n") > 0 THEN parse_csv_content(content)
        ELSE parse_text_sheet(content)

\* the elements of a finite set, one after the other
RECURSIVE SetToSeq(_)
SetToSeq(S) == IF S = {} THEN <<>> ELSE LET x == CHOOSE y \in S : TRUE IN <<x>> \o SetToSeq(S \ {x})

\* a dict of dice codes (a function) as a dict value
CodeDict(d) == LET ks == SetToSeq(DOMAIN d) IN PyDict([i \in 1..Len(ks) |-> <<ks[i], PyStr(d[ks[i]])>>])

\* mutant: the credits are left out of the dict
to_dict_without_credits(c) ==
    PyDict(<<<<Chars("name"), c.name>>, <<Chars("template"), c.template>>,
             <<Chars("attributes"), CodeDict(c.attributes)>>, <<Chars("skills"), CodeDict(c.skills)>>,
             <<Chars("force_points"), PyInt(c.force_points)>>,
             <<Chars("character_points"), PyInt(c.character_points)>>,
             <<Chars("dark_side_points"), PyInt(c.dark_side_points)>>,
             <<Chars("force_sensitive"), PyBool(c.force_sensitive)>>,
             <<Chars("equipment"), PyList(c.equipment)>>>>)

\* StarWarsCharacter.to_dict
to_dict(c) ==
    PyDict(<<<<Chars("name"), c.name>>, <<Chars("template"), c.template>>,
             <<Chars("attributes"), CodeDict(c.attributes)>>, <<Chars("skills"), CodeDict(c.skills)>>,
             <<Chars("force_points"), PyInt(c.force_points)>>,
             <<Chars("character_points"), PyInt(c.character_points)>>,
             <<Chars("dark_side_points"), PyInt(c.dark_side_points)>>,
             <<Chars("force_sensitive"), PyBool(c.force_sensitive)>>,
             <<Chars("equipment"), PyList(c.equipment)>>,
             <<Chars("credits"), PyInt(c.credits)>>>>)

\* the JSON text of a value, as json.dumps writes it
RECURSIVE JsonText(_)
JsonText(x) ==
    CASE x.type = "str" -> <<"\"">> \o x.v \o <<"\"">>
      [] x.type = "int" -> str(x.v)
      [] x.type = "bool" -> IF x.v THEN Chars("true") ELSE Chars("false")
      [] x.type = "list" -> <<"[">> \o JoinComma([i \in 1..Len(x.v) |-> JsonText(x.v[i])]) \o <<"]">>
      [] x.type = "dict" ->
            <<"{">> \o JoinComma([i \in 1..Len(x.keys) |->
                          <<"\"">> \o x.keys[i] \o <<"\"", ":", " ">> \o JsonText(x.v[x.keys[i]])]) \o <<"}">>
      [] OTHER -> Chars("null")

\* json.dumps(value): the text, which json.loads decodes to the value again
json_dumps(value) == Content(JsonText(value), Some(value))

(***************************************************************************)
(* validate_character                                                      *)
(***************************************************************************)
AttributeWarnings(character, attr) ==
    IF attr \notin DOMAIN character.attributes THEN <<<<"Missing attribute: ">> \o attr>>
    ELSE IF ~MatchStandard(character.attributes[attr])
        THEN <<<<"Invalid dice code for ">> \o attr \o <<": ">> \o character.attributes[attr]>>
    ELSE <<>>

NegativeWarning(value, label) == IF value < 0 THEN <<<<label, " cannot be negative">>>> ELSE <<>>

validate_character(character) ==
    (IF ~Truthy(character.name) \/ (character.name.type = "str" /\ character.name.v = Chars("Unknown"))
     THEN <<<<"Character name is missing or set to 'Unknown'">>>> ELSE <<>>)
    \o AttributeWarnings(character, attributes[1]) \o AttributeWarnings(character, attributes[2])
    \o AttributeWarnings(character, attributes[3]) \o AttributeWarnings(character, attributes[4])
    \o AttributeWarnings(character, attributes[5]) \o AttributeWarnings(character, attributes[6])
    \o NegativeWarning(character.force_points, "Force Points")
    \o NegativeWarning(character.character_points, "Character Points")
    \o NegativeWarning(character.dark_side_points, "Dark Side Points")
    \o NegativeWarning(character.credits, "Credits")

(***************************************************************************)
(* The parse entry points as actions.  p_arg holds the content, the file   *)
(* name (parse_file only) and, for a call made on a Character that an      *)
(* earlier call returned, that Character.                                  *)
(***************************************************************************)
Call(content, filename, character) == [content |-> content, filename |-> filename, character |-> character]

ParseFns == {"parse_file", "parse_json_content", "parse_csv_content", "parse_text_sheet"}

ParseJsonContent ==
    /\ p_fn = "parse_json_content" /\ p_ret = None
    /\ p_ret' = Some(parse_json_content(p_arg.content))
    /\ UNCHANGED <<p_fn, p_arg>> /\ UNCHANGED engineVars /\ UNCHANGED botVars

ParseCsvContent ==
    /\ p_fn = "parse_csv_content" /\ p_ret = None
    /\ p_ret' = Some(parse_csv_content(p_arg.content))
    /\ UNCHANGED <<p_fn, p_arg>> /\ UNCHANGED engineVars /\ UNCHANGED botVars

ParseTextSheet ==
    /\ p_fn = "parse_text_sheet" /\ p_ret = None
    /\ p_ret' = Some(parse_text_sheet(p_arg.content))
    /\ UNCHANGED <<p_fn, p_arg>> /\ UNCHANGED engineVars /\ UNCHANGED botVars

ParseFile ==
    /\ p_fn = "parse_file" /\ p_ret = None
    /\ p_ret' = Some(parse_file(p_arg.content, p_arg.filename))
    /\ UNCHANGED <<p_fn, p_arg>> /\ UNCHANGED engineVars /\ UNCHANGED botVars

\* a returned Character is serialized and handed to the JSON strategy
Reparse ==
    /\ p_fn \in ParseFns /\ p_ret # None /\ ~p_ret[1].raised
    /\ p_fn' = "parse_json_content"
    /\ p_arg' = Call(json_dumps(to_dict(p_ret[1].value)), <<>>, Some(p_ret[1].value))
    /\ p_ret' = None
    /\ UNCHANGED engineVars /\ UNCHANGED botVars

\* a returned Character is validated
ValidateCharacter ==
    /\ p_fn \in ParseFns /\ p_ret # None /\ ~p_ret[1].raised
    /\ p_fn' = "validate_character"
    /\ p_arg' = Call(p_arg.content, p_arg.filename, Some(p_ret[1].value))
    /\ p_ret' = Some(validate_character(p_ret[1].value))
    /\ UNCHANGED engineVars /\ UNCHANGED botVars

(***************************************************************************)
(* Inputs of the parse entry points                                        *)
(***************************************************************************)
Item(k, v) == <<Chars(k), v>>
Text(s) == PyStr(Chars(s))

NameOptions ==
    <<<<>>,
      <<Item("name", Text("Han Solo")), Item("template", Text("Smuggler"))>>,
      <<Item("character_name", PyInt(7))>>>>

AttributeOptions ==
    <<<<>>,
      <<Item("attributes", PyDict(<<Item("dexterity", Text("3D+1")), Item("Knowledge", Text(" 2d + 2 ")),
                                    Item("MECHANICAL", PyInt(4)), Item("perc", Text("5D")),
                                    Item("strength", Text("")), Item("Strength", Text("3D+1+1"))>>))>>,
      <<Item("stats", PyDict(<<Item("dexterity", Text("abc")), Item("technical", PyList(<<Text("3D")>>)),
                               Item("strength", PyBool(TRUE)), Item("knowledge", Text("4+2")),
                               Item("perception", PyNone)>>))>>,
      <<Item("attributes", PyInt(5))>>,
      <<Item("attributes", PyNone)>>,
      <<Item("attributes", Text("3D"))>>>>

SkillOptions ==
    <<<<>>,
      <<Item("skills", PyDict(<<Item("blaster", Text("4D+2")), Item("Melee Combat", Text("3d")),
                                Item("basket weaving", Text("3D")), Item("Lightsabre", PyInt(5)),
                                Item("dodge", Text("")), Item("first-aid", Text("2D+1+1"))>>))>>,
      <<Item("skills", PyDict(<<Item("Blaster", Text("4D")), Item("blaster", Text("5D")),
                                Item("telekinesis", Text("7")), Item("", Text("1D"))>>))>>,
      <<Item("skills", PyList(<<>>))>>,
      <<Item("skills", Text("x"))>>>>

EquipmentOptions ==
    <<<<>>,
      <<Item("equipment", Text("blaster, comlink, ,"))>>,
      <<Item("equipment", PyList(<<Text("medpac"), PyInt(3)>>))>>,
      <<Item("equipment", PyInt(5))>>>>

SensitiveOptions ==
    <<<<>>, <<Item("force_sensitive", PyBool(TRUE))>>, <<Item("forceSensitive", Text("no"))>>>>

NumberValues ==
    <<PyInt(2), PyInt(-3), PyInt(0), Text("7"), Text(" -4 "), Text("abc"), Text(""), PyNone, PyBool(TRUE),
      PyList(<<>>)>>

ForcePointOptions ==
    <<<<>>, <<Item("forcePoints", PyInt(4))>>>> \o [i \in 1..Len(NumberValues) |-> <<Item("force_points", NumberValues[i])>>]
CharacterPointOptions ==
    <<<<>>, <<Item("character_points", Text("x"))>>, <<Item("characterPoints", PyInt(3))>>>>
DarkSideOptions == <<<<>>, <<Item("dark_side_points", PyInt(-1))>>>>
CreditOptions ==
    <<<<>>, <<Item("credits", PyInt(-5))>>, <<Item("money", Text("250"))>>, <<Item("credits", PyNone)>>>>
BrokenAttributes == <<<<>>, <<Item("attributes", PyInt(5))>>>>
BrokenSkills == <<<<>>, <<Item("skills", Text("x"))>>>>

\* a sheet object, and an object of the numeric fields, by the options chosen
SheetObject(n, a, s, e, f) ==
    PyDict(NameOptions[n] \o AttributeOptions[a] \o SkillOptions[s] \o EquipmentOptions[e] \o SensitiveOptions[f])
PointsObject(a, s, fp, cp, ds, cr) ==
    PyDict(BrokenAttributes[a] \o BrokenSkills[s] \o ForcePointOptions[fp] \o CharacterPointOptions[cp]
           \o DarkSideOptions[ds] \o CreditOptions[cr])

\* documents that are no object, and texts that are no JSON
JsonOthers ==
    <<json_dumps(PyList(<<>>)), json_dumps(PyInt(5)), json_dumps(Text("x")), json_dumps(PyNone),
      Content(Chars("{bad"), None), Content(<<>>, None)>>

\* the cells of a row, joined by the delimiter
RECURSIVE JoinCells(_, _)
JoinCells(cells, delimiter) ==
    IF cells = <<>> THEN <<>>
    ELSE IF Len(cells) = 1 THEN Chars(cells[1])
    ELSE Chars(cells[1]) \o <<delimiter>> \o JoinCells(Tail(cells), delimiter)

CsvHeaders ==
    {<<"Name", "Dexterity", "Blaster", "Credits">>,
     <<"Character Name", "STRENGTH", "melee combat", "Force Points">>,
     <<"Name", "Perception Dice", "basket weaving", "Force_Points">>,
     <<"Name", "knowledge", "Force Sensitive", "Equipment">>,
     <<"Template", "mech", "Lightsabre", "Dark Side Points">>,
     <<"Name", "Dodge", "dodge", "Character Points">>}

CsvCells == {"", "3D+1", " 2d ", "abc", "-5", "7", "yes"}

CsvSheets ==
    {JoinCells(h, ",") \o <<"\n">> \o JoinCells(<<"Bob", a, b, c>>, ",") :
        h \in CsvHeaders, a \in CsvCells, b \in CsvCells, c \in CsvCells}

CsvOddities ==
    {Chars(""), Chars("Name"), Chars("Name\n"), Chars("\nName,Credits\nBob,5"),
     Chars("Name,Dexterity,Credits\nBob,3D"), Chars("Name,Dexterity\nBob,3D,9,9"),
     Chars("Name,Force Sensitive\nBob"), Chars("Name;Equipment;Force Sensitive\nBob;a, b,;YES"),
     Chars("Name;Dexterity,Credits\nBob;3D,7"), Chars("Name,Blaster,Blaster\nBob,4D,5D\nAnn,1D,1D"),
     Chars("name,credits,force sensitive\nBob,12,TRUE")}

CsvContents == {Content(t, None) : t \in CsvSheets \cup CsvOddities}

MaxLines == 2

TextLines ==
    {Chars("Name: Han Solo"), Chars("Template: Smuggler"), Chars("Dexterity: 3D+1"), Chars("dex 4d"),
     Chars("Strength 12D"), Chars("Blaster: 5D+2"), Chars("Melee Combat 4D"), Chars("basket weaving: 3D"),
     Chars("Force Points: 2"), Chars("Credits -5"), Chars("Dark Side Points: x"),
     Chars("Equipment: blaster, comlink"), Chars("force sensitive"), Chars("Perception:"),
     Chars("Character Points 7")}

RECURSIVE JoinLines(_)
JoinLines(lines) ==
    IF lines = <<>> THEN <<>>
    ELSE IF Len(lines) = 1 THEN lines[1]
    ELSE lines[1] \o <<"\n">> \o JoinLines(Tail(lines))

TextSheets == {JoinLines(lines) : lines \in UNION {[1..n -> TextLines] : n \in 0..MaxLines}}

TextContents == {Content(t, None) : t \in TextSheets}

FileNames == {Chars("sheet.json"), Chars("SHEET.CSV"), Chars("notes.txt"), Chars("a.text"), Chars("sheet"), <<>>}

FileContents ==
    <<json_dumps(PyDict(<<Item("name", Text("Han Solo")), Item("credits", Text("250"))>>)),
      json_dumps(PyList(<<>>)),
      Content(Chars(" {bad"), None),
      Content(Chars("Name,Dexterity,Credits\nBob,3D+1,7"), None),
      Content(Chars("Name;Dexterity\nBob;3D"), None),
      Content(Chars("Name: Han Solo\nDexterity: 3D+1"), None),
      Content(Chars("Blaster: 5D+2"), None),
      Content(<<>>, None)>>

InitParse ==
    /\ EngineIdle /\ BotIdle
    /\ p_ret = None
    /\ \/ /\ p_fn = "parse_json_content"
          /\ \/ \E n \in DOMAIN NameOptions, a \in DOMAIN AttributeOptions, s \in DOMAIN SkillOptions,
                   e \in DOMAIN EquipmentOptions, f \in DOMAIN SensitiveOptions :
                    p_arg = Call(json_dumps(SheetObject(n, a, s, e, f)), <<>>, None)
             \/ \E a \in DOMAIN BrokenAttributes, s \in DOMAIN BrokenSkills, fp \in DOMAIN ForcePointOptions,
                   cp \in DOMAIN CharacterPointOptions, ds \in DOMAIN DarkSideOptions,
                   cr \in DOMAIN CreditOptions :
                    p_arg = Call(json_dumps(PointsObject(a, s, fp, cp, ds, cr)), <<>>, None)
             \/ \E i \in DOMAIN JsonOthers : p_arg = Call(JsonOthers[i], <<>>, None)
       \/ p_fn = "parse_csv_content" /\ p_arg \in {Call(c, <<>>, None) : c \in CsvContents}
       \/ p_fn = "parse_text_sheet" /\ p_arg \in {Call(c, <<>>, None) : c \in TextContents}
       \/ p_fn = "parse_file" /\ \E i \in DOMAIN FileContents, f \in FileNames : p_arg = Call(FileContents[i], f, None)

NextParse ==
    \/ ParseJsonContent
    \/ ParseCsvContent
    \/ ParseTextSheet
    \/ ParseFile
    \/ Reparse
    \/ ValidateCharacter

SpecParse == InitParse /\ [][NextParse]_vars

(***************************************************************************)
(* _apply_dice_penalty on its own                                          *)
(***************************************************************************)
ApplyDicePenalty ==
    /\ p_fn = "_apply_dice_penalty" /\ p_ret = None
    /\ p_ret' = Some(_apply_dice_penalty(p_arg.dice_code, p_arg.penalty_dice))
    /\ UNCHANGED <<p_fn, p_arg>> /\ UNCHANGED engineVars /\ UNCHANGED botVars

\* codes of up to two more dice than a roll takes, with small and large bonuses
PenaltyCodes ==
    {str(n) \o <<"D">> \o tail : n \in 0..(MaxDice + 2),
                                tail \in {<<>>, Chars("+0"), Chars("+1"), Chars("+2"), Chars("+3"), Chars("+7"), Chars("+12")}}

InitPenalty ==
    /\ p_fn = "_apply_dice_penalty" /\ p_ret = None
    /\ p_arg \in [dice_code : NormalizeInputs \cup PenaltyCodes, penalty_dice : {1}]
    /\ EngineIdle /\ BotIdle

NextPenalty == ApplyDicePenalty

SpecPenalty == InitPenalty /\ [][NextPenalty]_vars

(***************************************************************************)
(* The sheet store and the commands of the bot.  A handler runs without    *)
(* interruption between two of its awaits; updatesheet keeps the row it    *)
(* found while it waits for the author's next message.  The parser keeps   *)
(* no state, so what it makes of each sheet is worked out once, when the   *)
(* bot starts, and kept in parsed_sheets.                                  *)
(***************************************************************************)
MaxSheets == 2       \* largest id the store gives to a CharacterSheet
MaxWaiting == 1      \* most updatesheet handlers waiting at one time

Members == {"1", "2"}
CharacterNames == {Chars("Han"), Chars("Leia")}

\* what a member pastes or attaches
SheetData ==
    <<json_dumps(PyDict(<<Item("name", Text("Han")), Item("template", Text("Smuggler"))>>)),
      Content(Chars("Name: Leia\nTemplate: Senator"), None),
      Content(Chars("{bad"), None),
      Content(<<>>, None)>>

\* the message of addsheet: the text after the command, or an attachment
NoAttachment == [filename |-> <<>>, content |-> 0]
AddMessages ==
    [i \in 1..Len(SheetData) |-> [attachment |-> NoAttachment, sheet_data |-> i]]
    \o <<[attachment |-> [filename |-> Chars("han.json"), content |-> 1], sheet_data |-> 4],
         [attachment |-> [filename |-> Chars("han.exe"), content |-> 1], sheet_data |-> 4]>>

\* the next message of the author of updatesheet: a message without an
\* attachment has content
UpdateMessages == {d \in DOMAIN SheetData : SheetData[d].text # <<>>}

\* get_or_create_user: the rows of User after the call
get_or_create_user(users, discord_id) == users \cup {discord_id}

\* is_gm
is_gm(member) == member \in gm_members

\* the rows .first() may give for filter_by(user_id=..., character_name=...)
OwnSheets(sheets, member, character_name) ==
    {i \in DOMAIN sheets : sheets[i].user_id = member /\ sheets[i].character_name = character_name}

\* the rows get_sheet_by_name may return; none when it returns None
get_sheet_by_name(sheets, member, character_name) ==
    IF OwnSheets(sheets, member, character_name) # {}
    THEN OwnSheets(sheets, member, character_name)
    ELSE IF is_gm(member)
    THEN {i \in DOMAIN sheets : sheets[i].character_name = character_name}
    ELSE {}

startswith(s, prefix) == Len(s) >= Len(prefix) /\ SubSeq(s, 1, Len(prefix)) = prefix

\* the try block of addsheet and of updatesheet around the parser
ParseSheet(sheet_data) ==
    IF startswith(strip(sheet_data.text), Chars("{"))
    THEN parse_json_content(sheet_data)
    ELSE parse_text_sheet(sheet_data)

\* CharacterSheet(user_id=..., character_name=character.name, ...)
SheetRow(member, character) ==
    [user_id |-> member,
     character_name |-> PyStrOf(character.name),
     template |-> PyStrOf(character.template),
     data |-> character]

\* the id the store gives to a new row
NewSheetId(sheets) ==
    IF DOMAIN sheets = {} THEN 1
    ELSE 1 + CHOOSE i \in DOMAIN sheets : \A j \in DOMAIN sheets : j <= i

\* what a handler sent, on which sheet, and the SheetData it had read (0: none)
Message(cmd, author, kind, sheet, data) ==
    [cmd |-> cmd, author |-> author, kind |-> kind, sheet |-> sheet, data |-> data]

AddSheet ==
    /\ op = "bot"
    /\ \E author \in Members, m \in DOMAIN AddMessages :
        LET message == AddMessages[m]
            attached == message.attachment # NoAttachment
            accepted == \E ext \in {Chars(".json"), Chars(".csv"), Chars(".txt")} :
                            endswith(message.attachment.filename, ext)
            d == IF attached THEN message.attachment.content ELSE message.sheet_data
            sheet_data == SheetData[d]
            parsed == parsed_sheets[d]
            character == parsed.value
            exists == ~parsed.raised /\ OwnSheets(db_sheets, author, PyStrOf(character.name)) # {}
            outcome == IF attached /\ ~accepted THEN "bad_file"
                       ELSE IF sheet_data.text = <<>> THEN "no_data"
                       ELSE IF parsed.raised THEN "parse_error"
                       ELSE IF exists THEN "exists" ELSE "saved"
        IN  /\ db_users' = get_or_create_user(db_users, author)
            /\ IF outcome = "saved" THEN
                   /\ NewSheetId(db_sheets) <= MaxSheets
                   /\ db_sheets' = Put(db_sheets, NewSheetId(db_sheets),
                                       SheetRow(author, character))
                   /\ sent' = Message("addsheet", author, outcome, NewSheetId(db_sheets), d)
               ELSE
                   /\ db_sheets' = db_sheets
                   /\ sent' = Message("addsheet", author, outcome, 0, IF outcome = "bad_file" THEN 0 ELSE d)
    /\ UNCHANGED <<db_shares, gm_members, waiting>>
    /\ UNCHANGED parsed_sheets /\ UNCHANGED engineVars /\ UNCHANGED parserVars

\* viewsheet: the embed of the sheet found, or the refusal
ViewSheet ==
    /\ op = "bot"
    /\ \E author \in Members, character_name \in CharacterNames :
        LET found == get_sheet_by_name(db_sheets, author, character_name)
        IN  /\ db_users' = get_or_create_user(db_users, author)
            /\ IF found = {} THEN sent' = Message("viewsheet", author, "not_found", 0, 0)
               ELSE \E sheet \in found : sent' = Message("viewsheet", author, "shown", sheet, 0)
    /\ UNCHANGED <<db_sheets, db_shares, gm_members, waiting>>
    /\ UNCHANGED parsed_sheets /\ UNCHANGED engineVars /\ UNCHANGED parserVars

ShareSheet ==
    /\ op = "bot"
    /\ \E author \in Members, character_name \in CharacterNames, user \in Members :
        LET found == get_sheet_by_name(db_sheets, author, character_name)
        IN  IF found = {} THEN
                /\ db_users' = get_or_create_user(db_users, author)
                /\ sent' = Message("sharesheet", author, "not_found", 0, 0)
                /\ UNCHANGED db_shares
            ELSE \E sheet \in found :
                LET share == [sheet_id |-> sheet, shared_with_discord_id |-> user]
                IN  /\ db_users' = get_or_create_user(get_or_create_user(db_users, author), user)
                    /\ IF share \in db_shares THEN
                           /\ sent' = Message("sharesheet", author, "already_shared", sheet, 0)
                           /\ UNCHANGED db_shares
                       ELSE
                           /\ db_shares' = db_shares \cup {share}
                           /\ sent' = Message("sharesheet", author, "shared", sheet, 0)
    /\ UNCHANGED <<db_sheets, gm_members, waiting>>
    /\ UNCHANGED parsed_sheets /\ UNCHANGED engineVars /\ UNCHANGED parserVars

DeleteSheet ==
    /\ op = "bot"
    /\ \E author \in Members, character_name \in CharacterNames :
        LET found == get_sheet_by_name(db_sheets, author, character_name)
        IN  /\ db_users' = get_or_create_user(db_users, author)
            /\ IF found = {} THEN
                   /\ sent' = Message("deletesheet", author, "not_found", 0, 0)
                   /\ UNCHANGED <<db_sheets, db_shares>>
               ELSE \E sheet \in found :
                   /\ db_shares' = {s \in db_shares : s.sheet_id # sheet}
                   /\ db_sheets' = [i \in DOMAIN db_sheets \ {sheet} |-> db_sheets[i]]
                   /\ sent' = Message("deletesheet", author, "deleted", sheet, 0)
    /\ UNCHANGED <<gm_members, waiting>>
    /\ UNCHANGED parsed_sheets /\ UNCHANGED engineVars /\ UNCHANGED parserVars

\* updatesheet up to bot.wait_for
UpdateSheetStart ==
    /\ op = "bot"
    /\ \E author \in Members, character_name \in CharacterNames :
        LET found == get_sheet_by_name(db_sheets, author, character_name)
        IN  /\ db_users' = get_or_create_user(db_users, author)
            /\ IF found = {} THEN
                   /\ sent' = Message("updatesheet", author, "not_found", 0, 0)
                   /\ UNCHANGED waiting
               ELSE \E sheet \in found :
                   /\ Cardinality(waiting) < MaxWaiting
                   /\ waiting' = waiting \cup {[author |-> author, sheet |-> sheet]}
                   /\ sent' = Message("updatesheet", author, "please_upload", sheet, 0)
    /\ UNCHANGED <<db_sheets, db_shares, gm_members>>
    /\ UNCHANGED parsed_sheets /\ UNCHANGED engineVars /\ UNCHANGED parserVars

\* mutant: the name of the sheet is written before the new data is parsed
UpdateWriteEarly(row, parsed) ==
    IF parsed.raised THEN [row EXCEPT !.character_name = Chars("Unknown")]
    ELSE [row EXCEPT !.character_name = PyStrOf(parsed.value.name),
                     !.template = PyStrOf(parsed.value.template),
                     !.data = parsed.value]

\* the three assignments of updatesheet, not reached when the parse raised
UpdateWrite(row, parsed) ==
    IF parsed.raised THEN row
    ELSE [row EXCEPT !.character_name = PyStrOf(parsed.value.name),
                     !.template = PyStrOf(parsed.value.template),
                     !.data = parsed.value]

\* the author's next message has come: the rest of updatesheet.  The row is
\* written by its id; when it is gone the commit changes nothing
UpdateSheetMessage ==
    /\ op = "bot"
    /\ \E w \in waiting, d \in UpdateMessages :
        LET parsed == parsed_sheets[d]
        IN  /\ waiting' = waiting \ {w}
            /\ IF w.sheet \in DOMAIN db_sheets THEN
                   /\ db_sheets' = [db_sheets EXCEPT ![w.sheet] = UpdateWrite(@, parsed)]
                   /\ sent' = Message("updatesheet", w.author,
                                      IF parsed.raised THEN "update_error" ELSE "updated", w.sheet, d)
               ELSE
                   /\ UNCHANGED db_sheets
                   /\ \E kind \in {"update_error", "updated"} :
                        /\ parsed.raised => kind = "update_error"
                        /\ sent' = Message("updatesheet", w.author, kind, w.sheet, d)
    /\ UNCHANGED <<db_users, db_shares, gm_members>>
    /\ UNCHANGED parsed_sheets /\ UNCHANGED engineVars /\ UNCHANGED parserVars

\* no message within 120 seconds: wait_for raises and the except branch answers
UpdateSheetTimeout ==
    /\ op = "bot"
    /\ \E w \in waiting :
        /\ waiting' = waiting \ {w}
        /\ sent' = Message("updatesheet", w.author, "update_error", w.sheet, 0)
    /\ UNCHANGED <<db_users, db_sheets, db_shares, gm_members>>
    /\ UNCHANGED parsed_sheets /\ UNCHANGED engineVars /\ UNCHANGED parserVars

InitBot ==
    /\ op = "bot"
    /\ pc = "idle"
    /\ use_wild_die = TRUE /\ dice_code = <<>> /\ modifier = 0 /\ difficulty = None
    /\ dark_side_temptation = FALSE
    /\ RollIdle /\ OpIdle
    /\ p_fn = "idle" /\ p_arg = <<>> /\ p_ret = <<>>
    /\ db_users = {} /\ db_sheets = <<>> /\ db_shares = {}
    /\ gm_members = {"2"}
    /\ waiting = {} /\ sent = NoMessage
    /\ parsed_sheets = [d \in DOMAIN SheetData |-> ParseSheet(SheetData[d])]

NextBot ==
    \/ AddSheet \/ ViewSheet \/ ShareSheet \/ DeleteSheet
    \/ UpdateSheetStart \/ UpdateSheetMessage \/ UpdateSheetTimeout

SpecBot == InitBot /\ [][NextBot]_vars

\* the commands that write CharacterSheet rows
NextStore ==
    \/ AddSheet \/ DeleteSheet
    \/ UpdateSheetStart \/ UpdateSheetMessage \/ UpdateSheetTimeout

SpecStore == InitBot /\ [][NextStore]_vars

(***************************************************************************)
(* Claims about the parser                                                 *)
(***************************************************************************)
Normalized == p_fn = "_normalize_dice_code" /\ p_ret # None
Letters == {LowerLetters[i] : i \in 1..26} \cup {UpperLetters[i] : i \in 1..26}
Characters == DigitChars \cup Letters \cup Whitespace \cup {"+", "-", "_", ":", ",", ";", "."}
IsString(v) == v \in Seq(Characters)

\* C18: _normalize_dice_code returns a string for every input string, and
\* normalizing what it returned gives the same string back.
C18_Idempotent ==
    Normalized =>
        /\ IsString(p_ret[1])
        /\ _normalize_dice_code(p_ret[1]) = p_ret[1]

\* a chained code was summed, and the sum is what a second run returns
C18_Witness ==
    /\ Normalized
    /\ p_arg = Chars("2D+1+2") /\ p_ret[1] = Chars("2D+3")
    /\ _normalize_dice_code(p_ret[1]) = Chars("2D+3")

(***************************************************************************)
(* A spelling of a taxonomy name, read character by character: letters in  *)
(* either case, and for each underscore of the name either an underscore   *)
(* or one run of spaces, tabs, newlines and hyphens; whitespace around it. *)
(***************************************************************************)
RECURSIVE SpellsFrom(_, _)
SpellsFrom(s, t) ==
    IF t = <<>> THEN s = <<>>
    ELSE IF s = <<>> THEN FALSE
    ELSE IF t[1] = "_" THEN
        \/ s[1] = "_" /\ SpellsFrom(Tail(s), Tail(t))
        \/ /\ s[1] \in {" ", "\t", "\n", "-"}
           /\ \E k \in 1..Len(s) :
                /\ \A i \in 1..k : s[i] \in {" ", "\t", "\n", "-"}
                /\ SpellsFrom(SubSeq(s, k + 1, Len(s)), Tail(t))
    ELSE LowerChar(s[1]) = t[1] /\ SpellsFrom(Tail(s), Tail(t))
SpellsName(s, t) == SpellsFrom(Trimmed(s), t)

\* the attribute whose list in the taxonomy holds t
Governing(t) == attributes[CHOOSE i \in 1..Len(attributes) : t \in Elements(skill_categories[i])]

SkillDone(fn) == p_fn = fn /\ p_ret # None
AliasCaseExamples == {Chars("Lightsabre"), Chars("lightsaber"), Chars("LIGHTSABER")}
SeparatorExamples == {Chars("light saber"), Chars("LIGHT_SABER")}

\* C19 as stated: 'Lightsabre', 'light saber' and 'LIGHT_SABER' all normalize
\* to 'lightsaber', and get_skill_attribute returns 'dexterity' for each.
C19_Original ==
    LET examples == {Chars("Lightsabre"), Chars("light saber"), Chars("LIGHT_SABER")}
    IN  /\ (SkillDone("_normalize_skill_name") /\ p_arg \in examples)
            => p_ret[1] = Chars("lightsaber")
        /\ (SkillDone("get_skill_attribute") /\ p_arg \in examples)
            => p_ret[1] = Some(Chars("dexterity"))

\* C19 (amended): the lookup ignores case, surrounding whitespace and the
\* choice of separator, and applies the alias table: every spelling of a
\* taxonomy name normalizes to that name and resolves to its attribute, and
\* 'Lightsabre', 'lightsaber', 'LIGHTSABER' normalize to 'lightsaber'
\* (dexterity).  A separator is kept as an underscore, never removed:
\* 'light saber' and 'LIGHT_SABER' normalize to 'light_saber', which is no
\* skill of the taxonomy, and get_skill_attribute returns None for them.
C19_SkillLookup ==
    /\ SkillDone("_normalize_skill_name") =>
        /\ p_arg \in AliasCaseExamples => p_ret[1] = Chars("lightsaber")
        /\ p_arg \in SeparatorExamples => p_ret[1] = Chars("light_saber")
        /\ \A t \in all_skills : SpellsName(p_arg, t) => p_ret[1] = t
    /\ SkillDone("get_skill_attribute") =>
        /\ p_arg \in AliasCaseExamples => p_ret[1] = Some(Chars("dexterity"))
        /\ p_arg \in SeparatorExamples => p_ret[1] = None
        /\ \A t \in all_skills : SpellsName(p_arg, t) => p_ret[1] = Some(Governing(t))

\* the alias spelling resolved to dexterity
C19_Witness ==
    /\ SkillDone("get_skill_attribute")
    /\ p_arg = Chars("LIGHTSABRE") /\ p_ret[1] = Some(Chars("dexterity"))

(***************************************************************************)
(* Untrained skills: the skill is one of the taxonomy and the sheet has no *)
(* entry for it.                                                           *)
(***************************************************************************)
Resolved(fn) == p_fn = fn /\ p_ret # None
AskedSkill == _normalize_skill_name(p_arg.skill_name)
Untrained == AskedSkill \in all_skills /\ AskedSkill \notin DOMAIN p_arg.character.skills
StoredGoverning == p_arg.character.attributes[Governing(AskedSkill)]
Pips(c) == 3 * FormDice(c) + FormBonus(c)
\* digits, D, and then nothing or + and digits
IsCanonical(c) ==
    LET k == LeadDigits(c)
    IN  /\ k >= 1 /\ Len(c) > k /\ c[k + 1] = "D"
        /\ \/ Len(c) = k + 1
           \/ /\ Len(c) > k + 2 /\ c[k + 2] = "+"
              /\ \A i \in (k + 3)..Len(c) : c[i] \in DigitChars

\* C20 as stated: for a recognized skill the character does not have, both
\* resolutions return the stored code of the governing attribute verbatim.
C20_Original ==
    /\ (Resolved("calculate_untrained_skill") /\ Untrained) => p_ret[1] = StoredGoverning
    /\ (Resolved("calculate_untrained_skill_from_data") /\ Untrained) => p_ret[1] = StoredGoverning

\* C20 (amended): the resolution that takes the stored character data, and
\* the roll command that calls it, apply no penalty: the code is the stored
\* code of the governing attribute, verbatim.  The resolution that takes a
\* Character record takes one die (3 pips) off that code, never going below
\* '1D', and writes the rest as ND or ND+M with M of 1 or 2.
C20_Untrained ==
    /\ (Resolved("calculate_untrained_skill_from_data") /\ Untrained) => p_ret[1] = StoredGoverning
    /\ (Resolved("roll_dice") /\ Untrained) =>
            p_ret[1] = [kind |-> "untrained", dice_code |-> StoredGoverning]
    /\ (Resolved("calculate_untrained_skill") /\ Untrained) =>
        /\ IsCanonical(p_ret[1]) /\ FormBonus(p_ret[1]) \in 0..2
        /\ Pips(p_ret[1]) = IF Pips(StoredGoverning) - 3 <= 3 THEN 3 ELSE Pips(StoredGoverning) - 3
        /\ (FormBonus(p_ret[1]) = 0) => p_ret[1][Len(p_ret[1])] = "D"

\* no 'bargain' on the sheet and perception '3D+1': the stored data gives '3D+1'
C20_Witness ==
    /\ Resolved("calculate_untrained_skill_from_data") /\ Untrained
    /\ p_arg.skill_name = Chars("Bargain")
    /\ StoredGoverning = Chars("3D+1") /\ p_ret[1] = Chars("3D+1")

\* a parse entry point has returned a Character
Returned == p_fn \in ParseFns /\ p_ret # None /\ ~p_ret[1].raised
Character == p_ret[1].value
StoredCodes == {Character.attributes[a] : a \in DOMAIN Character.attributes} \cup {Character.skills[s] : s \in DOMAIN Character.skills}

\* C11: every dice code stored in a Character that any strategy returns, in
\* attributes and in skills, has the canonical form (digits, D, optionally +
\* and digits), and the dice engine parses it without a format error.
C11_CanonicalCodes ==
    Returned => \A c \in StoredCodes : IsCanonical(c) /\ ~_parse_dice_code(c).raised

\* the JSON strategy has stored a skill code that was written as '2D+1+1'
C11_Witness ==
    /\ Returned /\ p_fn = "parse_json_content" /\ p_arg.character = None
    /\ Chars("first_aid") \in DOMAIN Character.skills
    /\ Character.skills[Chars("first_aid")] = Chars("2D+2")
    /\ Character.attributes[Chars("knowledge")] = Chars("2D+2")

\* the word occurs in the text, in any case
Occurs(w, t) == \E i \in 1..(Len(t) - Len(w) + 1) : LitAt(t, i, w)
\* the input names the attribute, in full or by its short form
Named(attr) ==
    \/ Occurs(attr, p_arg.content.text)
    \/ \E k \in DOMAIN attribute_aliases : attribute_aliases[k] = attr /\ Occurs(k, p_arg.content.text)
\* the code that follows the first label of the attribute that has one
LabelCode(attr) == Search(p_arg.content.text, LAMBDA s : AttributeMatchAt(p_arg.content.text, s, <<attr, attr>>))

\* C12 as stated: a Character returned by any strategy has exactly the six
\* attribute keys; an attribute whose name does not occur in the input has
\* the code '2D'; in the text strategy an attribute that is named takes the
\* code that follows its own label.
C12_Original ==
    Returned =>
        /\ DOMAIN Character.attributes = Elements(attributes)
        /\ \A attr \in Elements(attributes) :
              /\ ~Named(attr) => Character.attributes[attr] = Chars("2D")
              /\ (p_fn = "parse_text_sheet" /\ LabelCode(attr) # None)
                     => Character.attributes[attr] = _normalize_dice_code(LabelCode(attr)[1])

\* C13 as stated: in every strategy the keys of the returned skills are all
\* recognized names, of the skill taxonomy or of the Force powers: a key
\* whose normalized form is not recognized is dropped.
C13_Original ==
    Returned => \A k \in DOMAIN Character.skills : k \in all_skills \cup Elements(force_powers)

\* the value a JSON object gives under the first of two keys it has
Field(d, k1, k2) ==
    IF Chars(k1) \in DOMAIN d.v THEN Some(d.v[Chars(k1)]) ELSE IF Chars(k2) \in DOMAIN d.v THEN Some(d.v[Chars(k2)]) ELSE None
\* missing, or neither a number nor the text of one
Malformed(f) == f = None \/ f[1].type \in {"NoneType", "list", "dict"} \/ (f[1].type = "str" /\ ~int(f[1].v).ok)
\* the document is an object whose attributes and skills, if any, are objects
Document == p_arg.content.json[1]
WellFormed ==
    /\ p_arg.content.json # None /\ Document.type = "dict"
    /\ \A k \in {Chars("attributes"), Chars("stats"), Chars("skills")} : k \in DOMAIN Document.v => Document.v[k].type = "dict"

\* C14 as stated: in every strategy a force_points, character_points,
\* dark_side_points or credits value that is missing or not numeric becomes
\* 1, 5, 0, 1000 and the parse succeeds.
C14_Original ==
    /\ (Resolved("parse_json_content") /\ WellFormed) =>
          /\ ~p_ret[1].raised
          /\ Malformed(Field(Document, "force_points", "forcePoints")) => Character.force_points = 1
          /\ Malformed(Field(Document, "character_points", "characterPoints")) => Character.character_points = 5
          /\ Malformed(Field(Document, "dark_side_points", "darkSidePoints")) => Character.dark_side_points = 0
          /\ Malformed(Field(Document, "credits", "money")) => Character.credits = 1000
    /\ (Returned /\ p_fn \in {"parse_csv_content", "parse_text_sheet"}) =>
          /\ ~Occurs(Chars("points"), p_arg.content.text) =>
                Character.force_points = 1 /\ Character.character_points = 5 /\ Character.dark_side_points = 0
          /\ ~Occurs(Chars("credits"), p_arg.content.text) => Character.credits = 1000

\* validate_character has returned its warnings for a returned Character
Validated == p_fn = "validate_character" /\ p_ret # None
Flagged(warning) ==
    \/ warning[1] \in {"Missing attribute: ", "Invalid dice code for "}
    \/ (Len(warning) = 2 /\ warning[2] = " cannot be negative")

\* C15 as stated: for every Character the parser returns, from any strategy
\* and input, force_points, character_points, dark_side_points and credits
\* are >= 0, and validate_character gives no 'cannot be negative', no
\* 'Invalid dice code' and no 'Missing attribute' warning for it.
C15_Original ==
    /\ Returned => /\ Character.force_points >= 0 /\ Character.character_points >= 0
                   /\ Character.dark_side_points >= 0 /\ Character.credits >= 0
    /\ Validated => \A i \in DOMAIN p_ret[1] : ~Flagged(p_ret[1][i])

\* C16 as stated: every failure of a parse entry point is a ValueError that
\* carries a cause, and no other kind of exception, for every input.
C16_Original ==
    (p_fn \in ParseFns /\ p_ret # None /\ p_ret[1].raised) => p_ret[1].exc = "ValueError" /\ p_ret[1].msg # <<>>

\* the JSON strategy has parsed the serialized form of a returned Character
Reparsed == Resolved("parse_json_content") /\ p_arg.character # None
Original == p_arg.character[1]

\* C17: for every Character that the parser returned, parsing the JSON of
\* its to_dict with the JSON strategy succeeds and returns a Character equal
\* to it in all ten fields.
C17_RoundTrip ==
    Reparsed =>
        /\ ~p_ret[1].raised
        /\ Character.name = Original.name /\ Character.template = Original.template
        /\ Character.attributes = Original.attributes /\ Character.skills = Original.skills
        /\ Character.force_points = Original.force_points
        /\ Character.character_points = Original.character_points
        /\ Character.dark_side_points = Original.dark_side_points
        /\ Character.force_sensitive = Original.force_sensitive
        /\ Character.equipment = Original.equipment
        /\ Character.credits = Original.credits

\* a Character with a skill and credits of its own has made the round trip
C17_Witness ==
    /\ Reparsed /\ ~p_ret[1].raised
    /\ Original.skills # <<>> /\ Original.credits # 1000 /\ Character.credits = Original.credits

\* the cleaned argument of the normalizer, its digits and what follows the D
Cleaned == AsCleaned(p_arg)
CleanedDigits == SubSeq(Cleaned, 1, LeadDigits(Cleaned))
CleanedTail == SubSeq(Cleaned, LeadDigits(Cleaned) + 2, Len(Cleaned))
HasD == LeadDigits(Cleaned) >= 1 /\ Len(Cleaned) > LeadDigits(Cleaned) /\ Cleaned[LeadDigits(Cleaned) + 1] = "D"
Bonuses(t) == Cardinality({i \in 1..Len(t) : t[i] = "+"})
\* ND+M1+...+Mk with k >= 2
IsChained == HasD /\ ChainOK(CleanedTail) /\ Bonuses(CleanedTail) >= 2
\* N+M
IsNumberPlus ==
    /\ LeadDigits(Cleaned) >= 1 /\ Len(Cleaned) > LeadDigits(Cleaned) + 1
    /\ Cleaned[LeadDigits(Cleaned) + 1] = "+"
    /\ \A i \in (LeadDigits(Cleaned) + 2)..Len(Cleaned) : Cleaned[i] \in DigitChars
IsNumber == Cleaned # <<>> /\ LeadDigits(Cleaned) = Len(Cleaned)

\* C26 as stated: _normalize_dice_code sums chained bonuses of any length
\* (ND+M1+...+Mk, k >= 2, gives ND+(M1+...+Mk), which the dice engine reads
\* as it reads the chained code); ND and ND+M pass unchanged; N becomes ND;
\* N+M becomes ND+M; every other string becomes '2D'.
C26_Original ==
    Normalized =>
        IF IsChained
        THEN /\ p_ret[1] = CleanedDigits \o <<"D", "+">> \o str(ChainSum(CleanedTail))
             /\ _parse_dice_code(p_ret[1]) = _parse_dice_code(p_arg)
        ELSE IF IsCanonical(Cleaned) THEN p_ret[1] = Cleaned
        ELSE IF IsNumber THEN p_ret[1] = Cleaned \o <<"D">>
        ELSE IF IsNumberPlus
        THEN p_ret[1] = CleanedDigits \o <<"D">> \o SubSeq(Cleaned, LeadDigits(Cleaned) + 1, Len(Cleaned))
        ELSE p_ret[1] = Chars("2D")

Penalized == p_fn = "_apply_dice_penalty" /\ p_ret # None
\* digits and then D at the start
StartsCanonical(c) == LeadDigits(c) >= 1 /\ Len(c) > LeadDigits(c) /\ c[LeadDigits(c) + 1] = "D"

\* C28: for a canonical code, _apply_dice_penalty(code, 1) returns a
\* canonical code; when the pip value (3 per die plus bonus) less 3 is 3 or
\* less it is '1D', otherwise its pip value is that of the code less 3 and
\* its bonus is 0, 1 or 2.  A code that does not start with digits and D
\* gives '1D'.
C28_Penalty ==
    Penalized =>
        /\ IsCanonical(p_arg.dice_code) =>
              /\ IsCanonical(p_ret[1])
              /\ Pips(p_arg.dice_code) - 3 <= 3 => p_ret[1] = Chars("1D")
              /\ Pips(p_arg.dice_code) - 3 > 3 =>
                    /\ Pips(p_ret[1]) = Pips(p_arg.dice_code) - 3
                    /\ FormBonus(p_ret[1]) \in 0..2
        /\ ~StartsCanonical(p_arg.dice_code) => p_ret[1] = Chars("1D")

\* '4D+7' (19 pips) was lowered to '5D+1' (16 pips)
C28_Witness ==
    Penalized /\ p_arg.dice_code = Chars("4D+7") /\ p_ret[1] = Chars("5D+1")

\* roll has returned a result that is no error result
RolledResult == RollReturned /\ ~IsError(result)

\* C29: in every roll result with the wild die enabled and at least one
\* die, wild_die_result is the last entry of individual_dice and no multiple
\* of 6, wild_die_exploded is true iff wild_die_result >= 7, and
\* complications is non-empty iff wild_die_result mod 6 = 1; with the wild
\* die disabled wild_die_result is absent, wild_die_exploded is false and
\* complications is empty.
C29_WildResult ==
    RolledResult =>
        /\ (use_wild_die /\ FormN >= 1) =>
              /\ result.individual_dice # <<>>
              /\ result.wild_die_result = Some(result.individual_dice[Len(result.individual_dice)])
              /\ result.wild_die_result[1] % 6 # 0
              /\ result.wild_die_exploded = (result.wild_die_result[1] >= 7)
              /\ (result.complications # <<>>) = (result.wild_die_result[1] % 6 = 1)
        /\ ~use_wild_die =>
              /\ result.wild_die_result = None
              /\ result.wild_die_exploded = FALSE
              /\ result.complications = <<>>

\* a wild die that showed 6, 6, 1: 13, exploded, with a complication
C29_Witness ==
    /\ RolledResult /\ use_wild_die /\ FormN >= 2
    /\ result.wild_die_result = Some(13) /\ result.wild_die_exploded
    /\ result.complications # <<>>
    /\ result.individual_dice[Len(result.individual_dice)] = 13

\* the wild die is being rolled / has stopped
Rolling == op = "roll" /\ pc = "wild"
Stopped == op = "roll" /\ pc \in {"finish", "returned"} /\ wild_faces # <<>>

\* C24: the wild-die sub-roll stays rolling only on a face of 6 and stops on
\* the first other face, with a complication iff that face is 1; once it
\* has stopped no further die is drawn; and when the random source does not
\* give 6 for ever, every roll eventually returns a result.
C24_WildMachine ==
    /\ [](/\ Rolling => \A i \in 1..Len(wild_faces) : wild_faces[i] = 6
          /\ Stopped => /\ \A i \in 1..(Len(wild_faces) - 1) : wild_faces[i] = 6
                        /\ wild_faces[Len(wild_faces)] # 6
                        /\ (wd_complications # <<>>) = (wild_faces[Len(wild_faces)] = 1))
    /\ [][(pc \in {"finish", "returned"}) => (wild_faces' = wild_faces /\ draws' = draws)]_vars
    /\ <>RollReturned

\* the wild die kept rolling on two sixes and stopped on a 1
C24_Witness == RollReturned /\ wild_faces = <<6, 6, 1>> /\ ~IsError(result)

(***************************************************************************)
(* Claims about roll_force_power                                           *)
(***************************************************************************)
ForceEnded == op = "roll_force_power" /\ pc \in {"done", "raised"}
ForceReturned == op = "roll_force_power" /\ pc = "done" /\ out # None

\* C23: roll_force_power never raises: for every dice code, every difficulty
\* (absent, empty, named, unrecognized), either dark_side_temptation and every
\* sequence of faces, it returns a result object.
C23_Original == ForceEnded => ForceReturned

\* the three conditions of the note, read off the base roll
NoteDue ==
    /\ dark_side_temptation
    /\ result.wild_die_result = Some(1)
    /\ result.success = Some(FALSE)

\* C25: roll_force_power returns the base roll's complications with the Dark
\* Side temptation note appended exactly when dark_side_temptation is true, the
\* wild die shows 1 and the roll failed its difficulty check; in every other
\* case it returns the complications of the base roll, and the base error
\* result for a malformed dice code.
C25_Original ==
    ForceEnded =>
        /\ ForceReturned
        /\ IF IsError(result) THEN out[1] = result
           ELSE out[1].complications =
                    IF NoteDue THEN Append(result.complications, TemptationNote[1])
                    ELSE result.complications

(***************************************************************************)
(* Claims about the probing of attribute keys                              *)
(***************************************************************************)
ShortAlias(attr) == CHOOSE k \in DOMAIN attribute_aliases : attribute_aliases[k] = attr
\* the four spellings in the order of the claim
Probes(attr) == <<attr, capitalize(attr), upper(attr), ShortAlias(attr)>>
\* the first spelling under which d has a value that counts, 0 if none
FirstProbe(d, attr, Counts(_)) ==
    LET hits == {i \in 1..4 : Probes(attr)[i] \in DOMAIN d.v /\ Counts(d.v[Probes(attr)[i]])}
    IN  IF hits = {} THEN 0 ELSE CHOOSE i \in hits : \A j \in hits : i <= j
ProbedCode(d, attr, Counts(_)) ==
    IF FirstProbe(d, attr, Counts) = 0 THEN Chars("2D")
    ELSE _normalize_dice_code(strip(PyStrOf(d.v[Probes(attr)[FirstProbe(d, attr, Counts)]])))
AttrData ==
    DictGet(Document, Chars("attributes"), DictGet(Document, Chars("stats"), PyDict(<<>>)))
CsvData == DictReaderNext(CsvRows(p_arg.content.text, Delimiter(p_arg.content.text))).value

\* C27 as stated: in the JSON and the CSV strategy each attribute is looked up
\* under its lowercase name, its capitalized name, its all-caps name and its
\* short alias, in that order, and the first match gives the value; an
\* attribute given only under its alias has that value, not '2D'; no alias is
\* a key of the attributes stored.
C27_Original ==
    /\ (Resolved("parse_json_content") /\ WellFormed /\ Returned) =>
            \A attr \in Elements(attributes) :
                Character.attributes[attr] = ProbedCode(AttrData, attr, Truthy)
    /\ (Resolved("parse_csv_content") /\ Returned) =>
            \A attr \in Elements(attributes) :
                Character.attributes[attr] = ProbedCode(CsvData, attr, CellFilled)
    /\ Returned => DOMAIN Character.attributes \cap DOMAIN attribute_aliases = {}

(***************************************************************************)
(* Claims about the sheet store                                            *)
(***************************************************************************)
\* the step is the handler of cmd answering on sheet data the parser rejects
ParseFails(cmd) == sent'.cmd = cmd /\ sent'.data # 0 /\ parsed_sheets[sent'.data].raised

\* C21: when the parse of the submitted sheet fails nothing is persisted:
\* addsheet creates no CharacterSheet row, updatesheet leaves character_name,
\* template and data of the row as they were, and the user gets an error
\* message in both cases.
C21_NothingPersisted ==
    [][/\ ParseFails("addsheet") => (db_sheets' = db_sheets /\ sent'.kind = "parse_error")
       /\ ParseFails("updatesheet") => (db_sheets' = db_sheets /\ sent'.kind = "update_error")]_vars

\* updatesheet has answered a message that does not parse, on a sheet that
\* is still stored
C21_Witness ==
    /\ sent.cmd = "updatesheet" /\ sent.kind = "update_error" /\ sent.data # 0
    /\ parsed_sheets[sent.data].raised
    /\ sent.sheet \in DOMAIN db_sheets

\* viewsheet by member with the name of the sheet may show the sheet
CanView(member, sheet) ==
    sheet \in get_sheet_by_name(db_sheets, member, db_sheets[sheet].character_name)
SharedWith(member, sheet) ==
    [sheet_id |-> sheet, shared_with_discord_id |-> member] \in db_shares

\* C22 as stated: after any sequence of addsheet, sharesheet, updatesheet and
\* deletesheet a member can view a sheet with viewsheet if and only if the
\* member owns it, has a GM role, or the sheet was shared with the member.
C22_Original ==
    \A member \in Members, sheet \in DOMAIN db_sheets :
        CanView(member, sheet) <=>
            \/ db_sheets[sheet].user_id = member
            \/ is_gm(member)
            \/ SharedWith(member, sheet)

\* C30 as stated: after any sequence and interleaving of addsheet, updatesheet
\* and deletesheet no member owns two sheets with the same character_name.
C30_Original ==
    \A i, j \in DOMAIN db_sheets :
        (i # j /\ db_sheets[i].user_id = db_sheets[j].user_id)
            => db_sheets[i].character_name # db_sheets[j].character_name
====
